---- MODULE Spec2Model ----
(***************************************************************************)
(* A model of the evidence pipeline of icu-note-copilot: CSV ingestion,    *)
(* legacy ingestion, index build, hybrid retrieval, SOAP evidence packs,   *)
(* the Ollama client and the deterministic validators of the LLM pipeline. *)
(* Each component has its own specification over the shared variables;     *)
(* the variables of the other components stay at their initial values.     *)
(***************************************************************************)
EXTENDS Integers, Sequences, FiniteSets, TLC

VARIABLES
    \* ---- config.py
    settings,        \* SETTINGS: max_prompt_tokens and chars_per_token
    \* ---- OllamaClient.generate (llm/client.py)
    gen_arg,         \* the prompt argument of the call
    gen_pc,          \* "idle" | "sending" | "returned" | "raised"
    gen_max_retries, \* the max_retries argument
    gen_attempt,     \* the loop variable of `for attempt in range(max_retries + 1)`
    gen_prompt,      \* the local `prompt` (payload["prompt"])
    gen_est_tokens,  \* the local `est_tokens`
    gen_sent,        \* the prompts posted to the backend, one per request
    gen_outcomes,    \* what the backend answered to each request
    gen_result,      \* the returned response / the raised exception
    \* ---- a call of one of the deterministic validators
    val_call,        \* "none" or the name of the validator that was called
    val_input,       \* its argument
    val_report,      \* the VerificationReport it returned
    \* ---- ingestion and indexing (ingest_csv.py, steps.py, index_build.py)
    processed,       \* the processed directory: file name -> exists, rows
    indices,         \* the indices directory build_and_save_indices wrote
    \* ---- retrieval (retrieve.py, soap_retrieval.py)
    retriever,       \* the HybridRetriever: loaded, doc_ids, store
    hs_call,         \* the last hybrid_search call: its query answer and top_k
    hs_out,          \* the list it returned
    pack_call,       \* the last pack builder call: fn, section, row_id, top_k
                     \* and what hybrid_search retrieved for each pack
    packs,           \* the packs it returned
    \* ---- a call of one of the pure functions
    fn_call,         \* called, the function's name and its arguments
    fn_out,          \* what it returned
    \* ---- run_llm.main
    run,             \* pc, the model outputs, the reports, the files of runs/latest
    \* ---- compose_report.main
    compose,         \* pc, what the model answered, the report written
    \* ---- an index directory being rebuilt while retrievers are constructed
    rb,              \* the build's position, the files on disk, the reader
    \* ---- generate_report.run_batch_pipeline
    batch,           \* pc, row_ids, the loop position, all_reports, the summary
    \* ---- run_case.CasePipeline.run
    case_run         \* pc, the stages passed, the differential, the report

clientVars == <<settings, gen_arg, gen_pc, gen_max_retries, gen_attempt, gen_prompt, gen_est_tokens,
                gen_sent, gen_outcomes, gen_result>>

validateVars == <<val_call, val_input, val_report>>

ingestVars == <<processed, indices>>

searchVars == <<retriever, hs_call, hs_out, pack_call, packs>>

fnVars == <<fn_call, fn_out>>

vars == <<clientVars, validateVars, ingestVars, searchVars, fnVars, run, compose, rb, batch, case_run>>

\* what an action of one component leaves alone
notClientVars == <<validateVars, ingestVars, searchVars, fnVars, run, compose, rb, batch, case_run>>
notValidateVars == <<clientVars, ingestVars, searchVars, fnVars, run, compose, rb, batch, case_run>>
notIngestVars == <<clientVars, validateVars, searchVars, fnVars, run, compose, rb, batch, case_run>>
notSearchVars == <<clientVars, validateVars, ingestVars, fnVars, run, compose, rb, batch, case_run>>
notFnVars == <<clientVars, validateVars, ingestVars, searchVars, run, compose, rb, batch, case_run>>
notRunVars == <<clientVars, validateVars, ingestVars, searchVars, fnVars, compose, rb, batch, case_run>>
notComposeVars == <<clientVars, validateVars, ingestVars, searchVars, fnVars, run, rb, batch, case_run>>
notRebuildVars == <<clientVars, validateVars, ingestVars, searchVars, fnVars, run, compose, batch, case_run>>
notBatchVars == <<clientVars, validateVars, ingestVars, searchVars, fnVars, run, compose, rb, case_run>>
notCaseVars == <<clientVars, validateVars, ingestVars, searchVars, fnVars, run, compose, rb, batch>>

\* ------------------------------------------------------------------------
\* Arithmetic helpers
\* ------------------------------------------------------------------------
Max(a, b) == IF a >= b THEN a ELSE b
Min(a, b) == IF a <= b THEN a ELSE b
SetMax(S, dflt) == IF S = {} THEN dflt ELSE CHOOSE x \in S : \A y \in S : y <= x

\* ------------------------------------------------------------------------
\* Python strings, as sequences of one-character strings
\* ------------------------------------------------------------------------
UpperLetters == <<"A","B","C","D","E","F","G","H","I","J","K","L","M",
                  "N","O","P","Q","R","S","T","U","V","W","X","Y","Z">>
LowerLetters == <<"a","b","c","d","e","f","g","h","i","j","k","l","m",
                  "n","o","p","q","r","s","t","u","v","w","x","y","z">>
DigitChars == <<"0","1","2","3","4","5","6","7","8","9">>
Whitespace == {" ", "\n", "\t", "\r"}

LowerChar(c) ==
    IF \E i \in 1..26 : UpperLetters[i] = c
    THEN LowerLetters[CHOOSE i \in 1..26 : UpperLetters[i] = c]
    ELSE c
\* s.lower()
Lower(s) == [i \in 1..Len(s) |-> LowerChar(s[i])]
\* needle in hay
Contains(hay, needle) ==
    \E i \in 0..(Len(hay) - Len(needle)) : SubSeq(hay, i + 1, i + Len(needle)) = needle
\* s.startswith(p)
StartsWith(s, p) == Len(s) >= Len(p) /\ SubSeq(s, 1, Len(p)) = p
\* s.strip()
RECURSIVE FirstNonSpace(_, _)
FirstNonSpace(s, i) ==
    IF i <= Len(s) /\ s[i] \in Whitespace THEN FirstNonSpace(s, i + 1) ELSE i
RECURSIVE LastNonSpace(_, _)
LastNonSpace(s, i) ==
    IF i >= 1 /\ s[i] \in Whitespace THEN LastNonSpace(s, i - 1) ELSE i
Strip(s) == SubSeq(s, FirstNonSpace(s, 1), LastNonSpace(s, Len(s)))

\* str(n) for an integer n
RECURSIVE NatToStr(_)
NatToStr(n) ==
    IF n < 10 THEN <<DigitChars[n + 1]>>
    ELSE NatToStr(n \div 10) \o <<DigitChars[(n % 10) + 1]>>
IntToStr(n) == IF n < 0 THEN <<"-">> \o NatToStr(0 - n) ELSE NatToStr(n)

\* s.split(sep) for a one-character separator
RECURSIVE SplitOn(_, _)
SplitOn(s, sep) ==
    IF \A i \in 1..Len(s) : s[i] # sep THEN <<s>>
    ELSE LET i == CHOOSE i \in 1..Len(s) : s[i] = sep /\ \A j \in 1..(i - 1) : s[j] # sep
         IN  <<SubSeq(s, 1, i - 1)>> \o SplitOn(SubSeq(s, i + 1, Len(s)), sep)

\* int(s): surrounding whitespace, an optional sign, then decimal digits;
\* anything else is a ValueError (ok = FALSE).
RECURSIVE DigitsVal(_)
DigitsVal(ds) ==
    IF ds = <<>> THEN 0
    ELSE 10 * DigitsVal(SubSeq(ds, 1, Len(ds) - 1))
         + ((CHOOSE d \in 1..10 : DigitChars[d] = ds[Len(ds)]) - 1)
IsDigit(c) == \E d \in 1..10 : DigitChars[d] = c
PyInt(s) ==
    LET t    == Strip(s)
        neg  == t # <<>> /\ t[1] = "-"
        body == IF t # <<>> /\ t[1] \in {"-", "+"} THEN Tail(t) ELSE t
    IN  IF body # <<>> /\ \A i \in 1..Len(body) : IsDigit(body[i])
        THEN [ok |-> TRUE, val |-> IF neg THEN 0 - DigitsVal(body) ELSE DigitsVal(body)]
        ELSE [ok |-> FALSE, val |-> 0]

\* the concatenation of a sequence of sequences
RECURSIVE Flatten(_)
Flatten(ss) == IF ss = <<>> THEN <<>> ELSE Head(ss) \o Flatten(Tail(ss))
\* the sequences over S of length at most n
SeqsUpTo(S, n) == UNION {[1..m -> S] : m \in 0..n}
Range(s) == {s[i] : i \in 1..Len(s)}

\* ------------------------------------------------------------------------
\* Evidence identifiers
\* ------------------------------------------------------------------------
IdPadWidth == 6
RECURSIVE ZeroPad(_, _)
ZeroPad(s, w) == IF Len(s) >= w THEN s ELSE ZeroPad(<<"0">> \o s, w)
\* ingest/parsers.py _mk_id: f"{prefix}{idx:06d}"
mk_id(prefix, idx) == prefix \o ZeroPad(IntToStr(idx), IdPadWidth)
\* ingest/ingest_csv.py: f"{PREFIX}_{idx}_{k}"
csv_id(prefix, idx, k) == prefix \o <<"_">> \o IntToStr(idx) \o <<"_">> \o IntToStr(k)

\* Python's None; an optional argument is Nothing (None) or Some(v)
None == "None"
Nothing == [some |-> FALSE, v |-> 0]
Some(v) == [some |-> TRUE, v |-> v]

\* The processed directory: for each file name whether it exists and its rows
LegacyFiles == <<"narrative_spans.jsonl", "labs.jsonl", "monitor.jsonl",
                 "codebook.jsonl", "domain.jsonl", "flowsheet.jsonl">>
CsvFiles == <<"csv_summaries.jsonl", "csv_notes.jsonl",
              "csv_full_notes.jsonl", "csv_conversations.jsonl">>
\* the files list of build_evidence_corpus, in its order
CorpusFiles == LegacyFiles \o CsvFiles
NoFile == [exists |-> FALSE, rows |-> <<>>]
File(rows) == [exists |-> TRUE, rows |-> rows]
EmptyDir == [f \in Range(CorpusFiles) |-> NoFile]

\* ------------------------------------------------------------------------
\* config.py: SETTINGS
\* ------------------------------------------------------------------------
MaxPromptTokens == 12000
\* chars_per_token = 3.5 = CharsPerTokenNum / CharsPerTokenDen
CharsPerTokenNum == 7
CharsPerTokenDen == 2
SettingsTopK == 8
\* SETTINGS as the environment configures it; chars_per_token is the
\* fraction cpt_num / cpt_den
Settings(max_prompt_tokens, cpt_num, cpt_den) ==
    [max_prompt_tokens |-> max_prompt_tokens, cpt_num |-> cpt_num, cpt_den |-> cpt_den]
DefaultSettings == Settings(MaxPromptTokens, CharsPerTokenNum, CharsPerTokenDen)

\* ------------------------------------------------------------------------
\* llm/client.py
\*
\* A prompt is kept as its length and the positions (0-based, as Python
\* indexes them) of its newlines and of its ". " pairs: that is all that
\* estimate_tokens and truncate_to_token_limit read of a text.
\* ------------------------------------------------------------------------
NoBreak == 0 - 1

\* "\n[... truncated due to context limit ...]": 41 characters, a newline at
\* offset 0 and its last ". " at offset 4.
MarkerLen == 41
MarkerDotSpace == 4
TruncateSlack == 50
ShrinkThreshold == 4000

\* int(len(text) / SETTINGS.chars_per_token)
estimate_tokens(text) == (text.len * settings.cpt_den) \div settings.cpt_num

\* text[:m] for any integer m (a negative m counts from the end)
SliceTo(text, m) ==
    LET k == IF m >= 0 THEN Min(m, text.len) ELSE Max(text.len + m, 0)
    IN  [len |-> k,
         nl  |-> {p \in text.nl : p < k},
         ds  |-> {p \in text.ds : p + 2 <= k}]

\* text.rfind('\n') and text.rfind('. '), -1 when absent
RFindNewline(text) == SetMax(text.nl, NoBreak)
RFindDotSpace(text) == SetMax(text.ds, NoBreak)

\* truncated + "\n[... truncated due to context limit ...]"
AppendMarker(text) ==
    [len |-> text.len + MarkerLen,
     nl  |-> text.nl \cup {text.len},
     ds  |-> text.ds \cup {text.len + MarkerDotSpace}]

truncate_to_token_limit(text, max_tokens) ==
    LET max_chars  == (max_tokens * settings.cpt_num) \div settings.cpt_den
        truncated  == SliceTo(text, max_chars - TruncateSlack)
        last_break == Max(RFindNewline(truncated), RFindDotSpace(truncated))
        \* last_break > max_chars * 0.8
        cut        == IF last_break * 10 > max_chars * 8
                      THEN SliceTo(truncated, last_break + 1)
                      ELSE truncated
    IN  IF text.len <= max_chars THEN text ELSE AppendMarker(cut)

\* int(est_tokens * 0.7) and int(est_tokens * 0.6)
TimeoutBudget(est) == (est * 7) \div 10
ContextBudget(est) == (est * 6) \div 10

\* `if attempt < max_retries` of the two retrying handlers
TimeoutMayRetryOffByOne(att, maxr) == att <= maxr
TimeoutMayRetry(att, maxr) == att < maxr
ContextMayRetry(att, maxr) == att < maxr

\* The inputs: prompts the callers may pass, and the retry argument.
MaxRetriesArg == 2
Prompt(n, nls, dss) == [len |-> n, nl |-> nls, ds |-> dss]
Prompts ==
    { Prompt(35, {}, {}),
      Prompt(3000, {1200, 2999}, {700}),
      Prompt(14700, {9000, 11000, 14000}, {8000, 9500, 13000}),
      Prompt(50000, {30000, 41000, 41800}, {25000, 33000, 41900}) }

Outcomes == {"ok", "timeout", "context", "http_error", "other_error"}
Responses == {"", "{}", "text"}

ClientCallInit ==
    /\ gen_arg = Prompt(0, {}, {})
    /\ gen_pc = "idle"
    /\ gen_max_retries = 0
    /\ gen_attempt = 0
    /\ gen_prompt = Prompt(0, {}, {})
    /\ gen_est_tokens = 0
    /\ gen_sent = <<>>
    /\ gen_outcomes = <<>>
    /\ gen_result = [kind |-> "none"]
ClientInit == settings = DefaultSettings /\ ClientCallInit

\* generate(prompt, max_retries=...): lines 77-107, up to the retry loop.
\* With max_retries + 1 <= 0 the loop body never runs and the first use of
\* `r` after it raises.
GenerateCall(p, maxr) ==
    LET est0 == estimate_tokens(p)
        over == est0 > settings.max_prompt_tokens
        p1   == IF over THEN truncate_to_token_limit(p, settings.max_prompt_tokens) ELSE p
    IN  /\ gen_pc = "idle"
        /\ gen_arg' = p
        /\ UNCHANGED settings
        /\ gen_max_retries' = maxr
        /\ gen_attempt' = 0
        /\ gen_prompt' = p1
        /\ gen_est_tokens' = IF over THEN estimate_tokens(p1) ELSE est0
        /\ gen_sent' = <<>>
        /\ gen_outcomes' = <<>>
        /\ IF maxr + 1 > 0
           THEN gen_pc' = "sending" /\ gen_result' = [kind |-> "none"]
           ELSE gen_pc' = "raised" /\ gen_result' = [kind |-> "raised", error |-> "unbound"]
        /\ UNCHANGED notClientVars

\* The end of one loop iteration that did not break or raise: the next
\* attempt, or the end of range(max_retries + 1), after which `r` is unbound.
NextIteration ==
    /\ gen_attempt' = gen_attempt + 1
    /\ IF gen_attempt + 1 < gen_max_retries + 1
       THEN gen_pc' = "sending" /\ gen_result' = gen_result
       ELSE gen_pc' = "raised" /\ gen_result' = [kind |-> "raised", error |-> "unbound"]

Posted(outcome) ==
    /\ gen_pc = "sending"
    /\ gen_sent' = Append(gen_sent, gen_prompt)
    /\ gen_outcomes' = Append(gen_outcomes, outcome)
    /\ UNCHANGED <<settings, gen_arg>>
    /\ UNCHANGED notClientVars

\* lines 110-114 and 138-152: the request succeeds, the loop breaks, the
\* response text is returned (empty or "{}" included, after a warning).
AttemptOk(resp) ==
    /\ Posted([kind |-> "ok", response |-> resp])
    /\ gen_pc' = "returned"
    /\ gen_result' = [kind |-> "returned", response |-> resp]
    /\ UNCHANGED <<gen_max_retries, gen_attempt, gen_prompt, gen_est_tokens>>

\* lines 115-125: httpx.TimeoutException
AttemptTimeout ==
    /\ Posted([kind |-> "timeout"])
    /\ UNCHANGED gen_max_retries
    /\ IF TimeoutMayRetry(gen_attempt, gen_max_retries)
       THEN /\ IF gen_est_tokens > ShrinkThreshold
               THEN LET p1 == truncate_to_token_limit(gen_prompt, TimeoutBudget(gen_est_tokens))
                    IN  /\ gen_prompt' = p1
                        /\ gen_est_tokens' = estimate_tokens(p1)
               ELSE UNCHANGED <<gen_prompt, gen_est_tokens>>
            /\ NextIteration
       ELSE /\ gen_pc' = "raised"
            /\ gen_result' = [kind |-> "raised", error |-> "timeout"]
            /\ UNCHANGED <<gen_attempt, gen_prompt, gen_est_tokens>>

\* lines 126-134: httpx.HTTPStatusError whose text mentions "context" or "token"
AttemptContextError ==
    /\ Posted([kind |-> "context"])
    /\ UNCHANGED gen_max_retries
    /\ IF ContextMayRetry(gen_attempt, gen_max_retries)
       THEN LET p1 == truncate_to_token_limit(gen_prompt, ContextBudget(gen_est_tokens))
            IN  /\ gen_prompt' = p1
                /\ gen_est_tokens' = estimate_tokens(p1)
                /\ NextIteration
       ELSE /\ gen_pc' = "raised"
            /\ gen_result' = [kind |-> "raised", error |-> "context"]
            /\ UNCHANGED <<gen_attempt, gen_prompt, gen_est_tokens>>

\* lines 135-136: any other HTTPStatusError is re-raised at once
AttemptHttpError ==
    /\ Posted([kind |-> "http_error"])
    /\ gen_pc' = "raised"
    /\ gen_result' = [kind |-> "raised", error |-> "http_error"]
    /\ UNCHANGED <<gen_max_retries, gen_attempt, gen_prompt, gen_est_tokens>>

\* an exception no handler catches (connection refused, a body that is not JSON)
AttemptOtherError ==
    /\ Posted([kind |-> "other_error"])
    /\ gen_pc' = "raised"
    /\ gen_result' = [kind |-> "raised", error |-> "other_error"]
    /\ UNCHANGED <<gen_max_retries, gen_attempt, gen_prompt, gen_est_tokens>>

ClientNext ==
    \/ \E p \in Prompts, maxr \in 0..MaxRetriesArg : GenerateCall(p, maxr)
    \/ \E resp \in Responses : AttemptOk(resp)
    \/ AttemptTimeout
    \/ AttemptContextError
    \/ AttemptHttpError
    \/ AttemptOtherError

RetriedKinds == {"timeout", "context"}
AllRetried(outs) == \A i \in 1..Len(outs) : outs[i].kind \in RetriedKinds

\* C10: generate makes at most max_retries + 1 requests and is never left
\* waiting to send one more; when it returns, it returns the response of the
\* first successful attempt (every earlier attempt was a timeout or a
\* context-length error); and when all max_retries + 1 attempts fail with a
\* timeout or a context-length error it raises the error of the last attempt.
C10_GenerateBoundedRetries ==
    LET n == Len(gen_outcomes)
    IN  /\ n <= gen_max_retries + 1
        /\ gen_pc = "sending" => n = gen_attempt /\ n <= gen_max_retries
        /\ gen_pc = "returned" =>
               /\ n >= 1
               /\ gen_outcomes[n].kind = "ok"
               /\ AllRetried(SubSeq(gen_outcomes, 1, n - 1))
               /\ gen_result = [kind |-> "returned", response |-> gen_outcomes[n].response]
        /\ (gen_pc # "idle" /\ n = gen_max_retries + 1 /\ AllRetried(gen_outcomes)) =>
               /\ gen_pc = "raised"
               /\ gen_result = [kind |-> "raised", error |-> gen_outcomes[n].kind]

\* C10 witness: a call with two retries whose three attempts all failed with
\* a timeout or a context-length error, and which raised.
C10_Witness ==
    /\ gen_pc = "raised"
    /\ gen_max_retries = 2
    /\ Len(gen_outcomes) = 3
    /\ AllRetried(gen_outcomes)
    /\ gen_outcomes[1].kind = "context"
    /\ gen_outcomes[3].kind = "timeout"

\* gen_sent[i + 1] is the prompt of a retry after the failure of attempt i
MarkerText == [len |-> MarkerLen, nl |-> {0}, ds |-> {MarkerDotSpace}]
ShrunkRetry(before, after) ==
    /\ estimate_tokens(after) <= estimate_tokens(before)
    /\ estimate_tokens(after) <=
           TimeoutBudget(estimate_tokens(before)) + estimate_tokens(MarkerText)

\* C11: whenever generate retries after a request timeout or a
\* context-length error, the prompt sent on the retry is shrunk: its
\* estimated token count is never larger than that of the prompt of the
\* failed attempt, and at most 70% of it (the truncation notice aside).
C11_RetryPromptIsShrunk ==
    \A i \in 1..(Len(gen_sent) - 1) : ShrunkRetry(gen_sent[i], gen_sent[i + 1])

HttpFailures == {"timeout", "context", "http_error"}
\* C12: a non-2xx HTTP response or a timeout on an attempt that is not the
\* last one is followed by another attempt: generate raises such a failure
\* only when it was the failure of attempt max_retries + 1.
C12_HttpFailureBeforeLastAttemptRetries ==
    (gen_pc = "raised" /\ gen_result.error \in HttpFailures) =>
        Len(gen_outcomes) = gen_max_retries + 1

\* ------------------------------------------------------------------------
\* pipeline/validate_outputs.py, pipeline/evidence_rules.py
\*
\* An ExtractedFact is [label, value, evidence_ids], a SummaryBullet is
\* [text, evidence_ids], a DxHypothesis is [diagnosis, support, against,
\* missing, references, confidence]; a store is a dict, here a function
\* whose DOMAIN is its keys.
\* ------------------------------------------------------------------------
NoText == <<"<", "n", "o", "n", "e", ">">>
Finding(sev, msg, text, ids) ==
    [severity |-> sev, message |-> msg, offending_text |-> text,
     missing_evidence_ids |-> ids]
Report(findings) ==
    [ok |-> \A i \in 1..Len(findings) : findings[i].severity # "error",
     findings |-> findings]

exists(eid, store) == eid \in DOMAIN store
MissingIds(eids, store) == SelectSeq(eids, LAMBDA eid : ~exists(eid, store))

\* the findings of one iteration of `for b in summary.summary`
SummaryBulletFindings(b, store) ==
    IF b.evidence_ids = <<>>
    THEN <<Finding("error", "Summary bullet missing evidence_ids.", b.text, <<>>)>>
    ELSE IF MissingIds(b.evidence_ids, store) # <<>>
         THEN <<Finding("error", "Summary bullet references unknown evidence_ids.",
                        b.text, MissingIds(b.evidence_ids, store))>>
         ELSE <<>>

validate_summary(summary, store) ==
    Report(
        (IF Len(summary) = 0
         THEN <<Finding("error", "Summary is empty.", NoText, <<>>)>> ELSE <<>>)
        \o Flatten([i \in 1..Len(summary) |-> SummaryBulletFindings(summary[i], store)]))

\* eid.startswith(("D", "C"))
UsesDomainOrCodebook(eid) == StartsWith(eid, <<"D">>) \/ StartsWith(eid, <<"C">>)

\* the findings of one fact of a support or against block
DxFactFindings(dx, block_name, f, store) ==
    LET bad     == SelectSeq(f.evidence_ids, UsesDomainOrCodebook)
        missing == MissingIds(f.evidence_ids, store)
        where   == dx.diagnosis \o <<":", ":">> \o f.label
    IN  (IF bad # <<>>
         THEN <<Finding("error", <<"non-patient evidence (D/C)", block_name>>, where, bad)>>
         ELSE <<>>)
        \o
        (IF missing # <<>>
         THEN <<Finding("error", "Differential references unknown evidence_ids.",
                        where, missing)>>
         ELSE <<>>)

DxBlockFindings(dx, block_name, store) ==
    Flatten([i \in 1..Len(dx[block_name]) |->
                DxFactFindings(dx, block_name, dx[block_name][i], store)])

\* the findings of one iteration of `for dx in dx_out.differential`
DxFindings(dx, store) ==
    (IF Len(dx.support) < 2
     THEN <<Finding("warning", "Diagnosis has < 2 supports.", dx.diagnosis, <<>>)>>
     ELSE <<>>)
    \o
    (IF Len(dx.missing) < 1
     THEN <<Finding("warning", "Diagnosis missing discriminators absent.", dx.diagnosis, <<>>)>>
     ELSE <<>>)
    \o DxBlockFindings(dx, "support", store)
    \o DxBlockFindings(dx, "against", store)

validate_differential(dx_out, store) ==
    Report(
        (IF Len(dx_out) < 3
         THEN <<Finding("warning", "Differential has < 3 items.", NoText, <<>>)>> ELSE <<>>)
        \o Flatten([i \in 1..Len(dx_out) |-> DxFindings(dx_out[i], store)]))

\* evidence_rules._bad_ids: eid[:1] in forbidden_prefixes
bad_ids(evidence_ids, forbidden_prefixes) ==
    SelectSeq(evidence_ids, LAMBDA eid : SubSeq(eid, 1, Min(1, Len(eid))) \in forbidden_prefixes)

PatientStateGroups ==
    <<"demographics", "diagnoses", "procedures", "supports", "meds", "timeline">>

\* the findings of one fact of one group of validate_patient_state_evidence
PsFactFindings(group_name, fact) ==
    LET bad == bad_ids(fact.evidence_ids, {<<"D">>, <<"C">>})
    IN  (IF fact.evidence_ids = <<>>
         THEN <<Finding("error", <<group_name, "missing evidence_ids">>, fact.label, <<>>)>>
         ELSE <<>>)
        \o
        (IF bad # <<>>
         THEN <<Finding("error", <<group_name, "uses non-patient evidence ids">>,
                        fact.label, bad)>>
         ELSE <<>>)

validate_patient_state_evidence(ps) ==
    Report(Flatten([g \in 1..Len(PatientStateGroups) |->
        Flatten([i \in 1..Len(ps[PatientStateGroups[g]]) |->
            PsFactFindings(PatientStateGroups[g], ps[PatientStateGroups[g]][i])])]))

\* The evidence ids the validators are called with: legacy patient ids
\* (narrative, lab, monitor), background ids (domain, codebook), a
\* CSV-derived summary id, and a narrative id that no store holds.
IdN1 == mk_id(<<"N">>, 1)
IdN2 == mk_id(<<"N">>, 2)
IdL1 == mk_id(<<"L">>, 1)
IdM1 == mk_id(<<"M">>, 1)
IdD1 == mk_id(<<"D">>, 1)
IdC1 == mk_id(<<"C">>, 1)
IdCS == csv_id(<<"C", "S">>, 1, 0)
IdUnknown == mk_id(<<"N">>, 9)
StoreIds == {IdN1, IdN2, IdL1, IdM1, IdD1, IdC1, IdCS}
ValStore == [eid \in StoreIds |-> [evidence_id |-> eid, raw_text |-> <<"t">>]]

IdLists ==
    { <<>>, <<IdN1>>, <<IdL1>>, <<IdD1>>, <<IdC1>>, <<IdCS>>, <<IdUnknown>>,
      <<IdN1, IdM1>>, <<IdN1, IdD1>> }
TxtA == <<"a">>
TxtB == <<"b">>
Fact(label, value, eids) == [label |-> label, value |-> value, evidence_ids |-> eids]
Bullet(text, eids) == [text |-> text, evidence_ids |-> eids]
Dx(name, support, against, missing, conf) ==
    [diagnosis |-> name, support |-> support, against |-> against,
     missing |-> missing, references |-> <<>>, confidence |-> conf]

MaxBullets == 2
ValBullets == {Bullet(t, e) : t \in {TxtA, TxtB}, e \in IdLists}
ValSummaries == SeqsUpTo(ValBullets, MaxBullets)

ValFacts == {Fact(TxtA, TxtB, e) : e \in IdLists}
ValSupportLists ==
    {<<>>} \cup {<<f>> : f \in ValFacts}
    \cup {<<Fact(TxtA, TxtB, <<IdN1>>), f>> : f \in ValFacts}
ValAgainstLists ==
    {<<>>} \cup {<<Fact(TxtB, TxtA, e)>> : e \in {<<>>, <<IdN1>>, <<IdD1>>, <<IdUnknown>>}}
ValDxPool ==
    {Dx(TxtA, s, a, m, "high") : s \in ValSupportLists, a \in ValAgainstLists,
                                 m \in {<<>>, <<TxtB>>}}
ValDxOuts ==
    {<<>>} \cup {<<d>> : d \in ValDxPool} \cup {<<d, d, d>> : d \in ValDxPool}

ValPatientStates ==
    {[demographics |-> d, diagnoses |-> g, procedures |-> <<>>, supports |-> <<>>,
      meds |-> <<>>, timeline |-> t] :
        d \in {<<>>} \cup {<<f>> : f \in ValFacts},
        g \in {<<>>} \cup {<<f>> : f \in ValFacts},
        t \in {<<>>, <<Fact(TxtB, TxtA, <<IdL1>>)>>}}

ValidateInit ==
    /\ val_call = "none"
    /\ val_input = <<>>
    /\ val_report = Report(<<>>)

ValidateSummaryCall(summary) ==
    /\ val_call = "none"
    /\ val_call' = "validate_summary"
    /\ val_input' = summary
    /\ val_report' = validate_summary(summary, ValStore)
    /\ UNCHANGED notValidateVars

ValidateDifferentialCall(dx_out) ==
    /\ val_call = "none"
    /\ val_call' = "validate_differential"
    /\ val_input' = dx_out
    /\ val_report' = validate_differential(dx_out, ValStore)
    /\ UNCHANGED notValidateVars

ValidatePatientStateCall(ps) ==
    /\ val_call = "none"
    /\ val_call' = "validate_patient_state_evidence"
    /\ val_input' = ps
    /\ val_report' = validate_patient_state_evidence(ps)
    /\ UNCHANGED notValidateVars

ValidateNext ==
    \/ \E summary \in ValSummaries : ValidateSummaryCall(summary)
    \/ \E dx_out \in ValDxOuts : ValidateDifferentialCall(dx_out)
    \/ \E ps \in ValPatientStates : ValidatePatientStateCall(ps)

\* the support and against facts of a differential, in order
DxFacts(dx_out) ==
    Flatten([i \in 1..Len(dx_out) |-> dx_out[i].support \o dx_out[i].against])
ErrorFindings(report) == SelectSeq(report.findings, LAMBDA f : f.severity = "error")

\* C4: every summary bullet, and every support or against fact of a
\* differential, that has an empty evidence_ids list makes its validator
\* report an error, so the report of a call with such a fact is not ok.
C4_EmptyEvidenceIdsIsAnError ==
    /\ val_call = "validate_summary" =>
          ((\E i \in 1..Len(val_input) : val_input[i].evidence_ids = <<>>)
              => ~val_report.ok)
    /\ val_call = "validate_differential" =>
          ((\E i \in 1..Len(DxFacts(val_input)) : DxFacts(val_input)[i].evidence_ids = <<>>)
              => ~val_report.ok)

\* C5: every summary bullet, and every support or against fact of a
\* differential, that cites a domain (D) or codebook (C) evidence id makes
\* its validator report an error, so no such report is ok.
IsBackgroundId(eid) == eid \in {IdD1, IdC1}
CitesBackground(eids) == \E k \in 1..Len(eids) : IsBackgroundId(eids[k])
C5_BackgroundCitationIsAnError ==
    /\ val_call = "validate_summary" =>
          ((\E i \in 1..Len(val_input) : CitesBackground(val_input[i].evidence_ids))
              => ~val_report.ok)
    /\ val_call = "validate_differential" =>
          ((\E i \in 1..Len(DxFacts(val_input)) :
                CitesBackground(DxFacts(val_input)[i].evidence_ids))
              => ~val_report.ok)

\* ------------------------------------------------------------------------
\* ingest/ingest_csv.py: chunk_text
\* Offsets are Python's: text[a:b] is SubSeq(text, a + 1, b).
\* ------------------------------------------------------------------------
\* a slice bound as Python reads it: a negative one counts from the end
PyIndex(i, n) == IF i < 0 THEN Max(i + n, 0) ELSE Min(i, n)
PySlice(text, a, b) == SubSeq(text, PyIndex(a, Len(text)) + 1, PyIndex(b, Len(text)))
\* text.rfind(bc, lo, hi)
RFind(text, bc, lo, hi) ==
    SetMax({i \in PyIndex(lo, Len(text))..(PyIndex(hi, Len(text)) - Len(bc)) :
                SubSeq(text, i + 1, i + Len(bc)) = bc},
           0 - 1)
BreakChars == << <<"\n", "\n">>, <<"\n">>, <<".", " ">>, <<"?", " ">>, <<"!", " ">> >>
\* the for loop over break_chars: the end of the chunk starting at start
BestBreak(text, start, end, min_chunk_size) ==
    LET found == {b \in 1..Len(BreakChars) :
                     RFind(text, BreakChars[b], start + min_chunk_size, end)
                         > start + min_chunk_size}
    IN  IF found = {} THEN end
        ELSE LET b == CHOOSE b \in found : \A c \in found : b <= c
             IN  RFind(text, BreakChars[b], start + min_chunk_size, end)
                     + Len(BreakChars[b])
Chunk(chunk, start, end) == [text |-> chunk, char_start |-> start, char_end |-> end]
\* one pass of the while loop: the end of the chunk, the chunk it appends if
\* any, and the next start
ChunkEnd(text, start, chunk_size, min_chunk_size) ==
    LET end0 == Min(start + chunk_size, Len(text))
    IN  IF end0 < Len(text) THEN BestBreak(text, start, end0, min_chunk_size) ELSE end0
NextStart(text, end, overlap) == IF end < Len(text) THEN end - overlap ELSE Len(text)
RECURSIVE ChunkLoop(_, _, _, _, _)
ChunkLoop(text, start, chunk_size, overlap, min_chunk_size) ==
    IF ~(start < Len(text)) THEN <<>>
    ELSE LET end   == ChunkEnd(text, start, chunk_size, min_chunk_size)
             chunk == Strip(PySlice(text, start, end))
             next  == NextStart(text, end, overlap)
         IN  (IF Len(chunk) >= min_chunk_size THEN <<Chunk(chunk, start, end)>> ELSE <<>>)
             \o ChunkLoop(text, next, chunk_size, overlap, min_chunk_size)
chunk_text(text, chunk_size, overlap, min_chunk_size) ==
    IF text = <<>> THEN <<>>
    ELSE IF Len(text) < min_chunk_size THEN <<Chunk(text, 0, Len(text))>>
    ELSE ChunkLoop(text, 0, chunk_size, overlap, min_chunk_size)

\* ------------------------------------------------------------------------
\* ingest/ingest_csv.py: parse_conversation
\* ------------------------------------------------------------------------
SpeakerNames == << <<"p","a","t","i","e","n","t">>, <<"d","o","c","t","o","r">>, <<"p","h","y","s","i","c","i","a","n">>, <<"n","u","r","s","e">>, <<"u","s","e","r">>, <<"a","s","s","i","s","t","a","n","t">>, <<"p","r","o","v","i","d","e","r">>, <<"c","l","i","n","i","c","i","a","n">> >>
ShortSpeakerNames == << <<"p">>, <<"d">>, <<"d","r">>, <<"r","n">> >>
\* the alternatives of combined_pattern in the order the regular expression
\* tries them: the names of the first pattern, then those of the second
PatternNames == SpeakerNames \o ShortSpeakerNames
RECURSIVE SkipSpaces(_, _)
SkipSpaces(text, i) ==
    IF i <= Len(text) /\ text[i] \in Whitespace THEN SkipSpaces(text, i + 1) ELSE i
\* one alternative tried at index i (from 1): the name, case-insensitive,
\* \s*, then ":"; the index of the ":" or 0
NameMatchEnd(text, i, name) ==
    LET j == SkipSpaces(text, i + Len(name))
    IN  IF /\ i + Len(name) - 1 <= Len(text)
           /\ Lower(SubSeq(text, i, i + Len(name) - 1)) = name
           /\ j <= Len(text) /\ text[j] = ":"
        THEN j ELSE 0
\* combined_pattern tried at index i: which pattern matched (group 0 for no
\* match), the length of the name and the index of the last character;
\* ends[k] is what alternative k answers
FirstAlternative(ends) ==
    LET ms == {k \in 1..Len(PatternNames) : ends[k] > 0}
        k  == CHOOSE k \in ms : \A l \in ms : k <= l
    IN  IF ms = {} THEN [group |-> 0, name_len |-> 0, last |-> 0]
        ELSE [group |-> IF k <= Len(SpeakerNames) THEN 1 ELSE 2,
              name_len |-> Len(PatternNames[k]), last |-> ends[k]]
PatternAt(text, i) ==
    FirstAlternative([k \in 1..Len(PatternNames) |->
                         NameMatchEnd(text, i, PatternNames[k])])
\* re.match(combined_pattern, part, re.IGNORECASE)
MatchesSpeaker(part) == PatternAt(part, 1).group # 0

\* One element of the list re.split returns; a group that took no part in
\* the match is None
Part(s) == [none |-> FALSE, s |-> s]
NonePart == [none |-> TRUE, s |-> <<>>]
\* re.split(f'({combined_pattern})', text): the text before each match,
\* then the five groups of the match (the whole match, the first pattern,
\* its name, the second pattern, its name), then the rest
SpeakerHits(pat, from) == {i \in from..Len(pat) : pat[i].group # 0}
\* the parts one match at index i adds: the text before it and its groups
MatchParts(text, from, i, m) ==
    <<Part(SubSeq(text, from, i - 1)), Part(SubSeq(text, i, m.last))>>
    \o (IF m.group = 1
        THEN <<Part(SubSeq(text, i, m.last)), Part(SubSeq(text, i, i + m.name_len - 1)),
               NonePart, NonePart>>
        ELSE <<NonePart, NonePart,
               Part(SubSeq(text, i, m.last)), Part(SubSeq(text, i, i + m.name_len - 1))>>)
\* pat[i] is what combined_pattern answers at index i, hits the indices from
\* `from` on where it matches
RECURSIVE SplitFrom(_, _, _)
SplitFrom(text, pat, from) ==
    IF SpeakerHits(pat, from) = {} THEN <<Part(SubSeq(text, from, Len(text)))>>
    ELSE LET i == CHOOSE i \in SpeakerHits(pat, from) :
                      \A j \in SpeakerHits(pat, from) : i <= j
         IN  MatchParts(text, from, i, pat[i]) \o SplitFrom(text, pat, pat[i].last + 1)
SplitSpeakers(text) == SplitFrom(text, [i \in 1..Len(text) |-> PatternAt(text, i)], 1)

Turn(text, start, end) == [text |-> text, char_start |-> start, char_end |-> end]
\* the for loop over splits: st holds turns, current_turn, turn_start and
\* current_pos
RECURSIVE SpeakerLoop(_, _, _)
SpeakerLoop(splits, i, st) ==
    IF i > Len(splits) THEN st
    ELSE LET part == splits[i]
             some == ~part.none /\ part.s # <<>>
             st1  == IF some /\ MatchesSpeaker(part.s)
                     THEN [st EXCEPT
                             !.turns = IF Strip(st.current_turn) # <<>>
                                       THEN Append(@, Turn(Strip(st.current_turn),
                                                           st.turn_start, st.current_pos))
                                       ELSE @,
                             !.current_turn = part.s,
                             !.turn_start = st.current_pos]
                     ELSE IF some
                     THEN [st EXCEPT !.current_turn = @ \o part.s]
                     ELSE st
         IN  SpeakerLoop(splits, i + 1,
                         [st1 EXCEPT !.current_pos = @ + Len(part.s)])
\* what follows the loop: the last turn runs to the end of the text
SpeakerTurnsOf(splits, st, text_len) ==
    IF ~(Len(splits) > 1) THEN <<>>
    ELSE IF Strip(st.current_turn) # <<>>
         THEN Append(st.turns, Turn(Strip(st.current_turn), st.turn_start, text_len))
         ELSE st.turns
SpeakerTurnsFrom(splits, text_len) ==
    SpeakerTurnsOf(splits,
                   SpeakerLoop(splits, 1, [turns |-> <<>>, current_turn |-> <<>>,
                                           turn_start |-> 0, current_pos |-> 0]),
                   text_len)
SpeakerTurns(text) == SpeakerTurnsFrom(SplitSpeakers(text), Len(text))
MinLineTurn == 20
\* the fallback loop over text.split('\n')
RECURSIVE LineLoop(_, _)
LineLoop(lines, pos) ==
    IF lines = <<>> THEN <<>>
    ELSE LET line == Strip(Head(lines))
         IN  (IF Len(line) > MinLineTurn THEN <<Turn(line, pos, pos + Len(line))>>
              ELSE <<>>)
             \o LineLoop(Tail(lines), pos + Len(line) + 1)
\* `if not turns:` and `return turns if turns else [(text, 0, len(text))]`
OrLineTurns(text, turns) ==
    IF turns = <<>> THEN LineLoop(SplitOn(text, "\n"), 0) ELSE turns
OrWholeText(text, turns) == IF turns # <<>> THEN turns ELSE <<Turn(text, 0, Len(text))>>
parse_conversation(text) ==
    IF text = <<>> THEN <<>>
    ELSE OrWholeText(text, OrLineTurns(text, SpeakerTurns(text)))

\* ------------------------------------------------------------------------
\* ingest/ingest_csv.py: parse_summary_json
\*
\* A JSON value is kept as json.loads returns it: its type t, for a scalar
\* its truth value and str(value), for a list its items, for a dict its
\* (key, value) items in order.
\* ------------------------------------------------------------------------
JStr(str) == [t |-> "str", truthy |-> str # <<>>, s |-> str, items |-> <<>>]
JInt(n) == [t |-> "int", truthy |-> n # 0, s |-> IntToStr(n), items |-> <<>>]
JBool(b) ==
    [t |-> "bool", truthy |-> b,
     s |-> IF b THEN <<"T","r","u","e">> ELSE <<"F","a","l","s","e">>, items |-> <<>>]
JNull == [t |-> "null", truthy |-> FALSE, s |-> <<"N","o","n","e">>, items |-> <<>>]
JList(items) == [t |-> "list", truthy |-> items # <<>>, s |-> <<>>, items |-> items]
JDict(items) == [t |-> "dict", truthy |-> items # <<>>, s |-> <<>>, items |-> items]
KV(k, v) == [k |-> k, v |-> v]
\* isinstance(value, (str, int, float, bool))
IsScalar(j) == j.t \in {"str", "int", "float", "bool"}

SummaryFact(key, value) == [key |-> key, value |-> value]
\* extract_facts: the (key, value) facts in the order they are appended
RECURSIVE extract_facts(_, _)
extract_facts(obj, prefix) ==
    LET dictItem(it) ==
            LET new_prefix == IF prefix # <<>> THEN prefix \o <<".">> \o it.k ELSE it.k
            IN  IF IsScalar(it.v) /\ it.v.truthy
                THEN <<SummaryFact(new_prefix, it.v.s)>>
                ELSE IF it.v.t \in {"dict", "list"}
                THEN extract_facts(it.v, new_prefix)
                ELSE <<>>
        listItem(i) ==
            LET key == prefix \o <<"[">> \o IntToStr(i - 1) \o <<"]">>
            IN  IF IsScalar(obj.items[i]) THEN <<SummaryFact(key, obj.items[i].s)>>
                ELSE IF obj.items[i].t = "dict" THEN extract_facts(obj.items[i], key)
                ELSE <<>>
    IN  IF obj.t = "dict"
        THEN Flatten([i \in 1..Len(obj.items) |-> dictItem(obj.items[i])])
        ELSE IF obj.t = "list"
        THEN Flatten([i \in 1..Len(obj.items) |-> listItem(i)])
        ELSE <<>>

SummaryTruncate == 1000
CsvRecord(eid, type, text, row_id, field, k, start, end) ==
    [evidence_id |-> eid, evidence_type |-> type, raw_text |-> text, row_id |-> row_id,
     field |-> field, chunk_index |-> k, char_start |-> start, char_end |-> end]
\* json_str is the field text (raw), whether json.loads accepts it (valid)
\* and the value it returns (json)
parse_summary_json(json_str, row_id) ==
    LET facts == extract_facts(json_str.json, <<>>)
    IN  IF Strip(json_str.raw) = <<>> THEN <<>>
        ELSE IF ~json_str.valid
        THEN <<CsvRecord(csv_id(<<"C", "S">>, row_id, 0), "csv_summary",
                         PySlice(json_str.raw, 0, SummaryTruncate), row_id,
                         "summary_json", 0, None, None)>>
        ELSE [k \in 1..Len(facts) |->
                CsvRecord(csv_id(<<"C", "S">>, row_id, k - 1), "csv_summary",
                          facts[k].key \o <<":", " ">> \o facts[k].value, row_id,
                          "summary_json", k - 1, None, None)]

\* ------------------------------------------------------------------------
\* ingest/ingest_csv.py: CSVRow, process_csv_row, ingest_csv_file
\* ------------------------------------------------------------------------
ChunkSize == 500
NoteOverlap == 0
FullNoteOverlap == 50
MinChunkSize == 50

\* CSVRow.from_dict: every text field stripped
from_dict(row, idx) ==
    [idx |-> idx, note |-> Strip(row.note), full_note |-> Strip(row.full_note),
     conversation |-> Strip(row.conversation),
     summary_json |-> [row.summary_json EXCEPT !.raw = Strip(@)]]

SpanRecords(prefix, type, field, idx, spans) ==
    [k \in 1..Len(spans) |->
        CsvRecord(csv_id(prefix, idx, k - 1), type, spans[k].text, idx, field, k - 1,
                  spans[k].char_start, spans[k].char_end)]
process_csv_row(row) ==
    (IF row.note # <<>>
     THEN SpanRecords(<<"C", "N">>, "csv_note", "note", row.idx,
                      chunk_text(row.note, ChunkSize, NoteOverlap, MinChunkSize))
     ELSE <<>>)
    \o (IF row.full_note # <<>>
        THEN SpanRecords(<<"C", "F">>, "csv_full_note", "full_note", row.idx,
                         chunk_text(row.full_note, ChunkSize, FullNoteOverlap, MinChunkSize))
        ELSE <<>>)
    \o (IF row.conversation # <<>>
        THEN SpanRecords(<<"C", "V">>, "csv_conv", "conversation", row.idx,
                         parse_conversation(row.conversation))
        ELSE <<>>)
    \o (IF row.summary_json.raw # <<>>
        THEN parse_summary_json(row.summary_json, row.idx)
        ELSE <<>>)

\* A value of an id column: absent, a string (every CSV cell), a JSON
\* integer or null
Absent == [t |-> "absent", s |-> <<>>, n |-> 0]
IdStr(str) == [t |-> "str", s |-> str, n |-> 0]
IdInt(n) == [t |-> "int", s |-> <<>>, n |-> n]
IdNull == [t |-> "null", s |-> <<>>, n |-> 0]
\* row_dict.get('idx', row_dict.get('id', row_dict.get('ID', i))), then
\* int(idx_val), the row number i on ValueError or TypeError
RowIdx(row, i) ==
    LET idx_val == IF row.idx.t # "absent" THEN row.idx
                   ELSE IF row.id.t # "absent" THEN row.id
                   ELSE IF row.ID.t # "absent" THEN row.ID
                   ELSE IdInt(i)
    IN  IF idx_val.t = "int" THEN idx_val.n
        ELSE IF idx_val.t = "str" /\ PyInt(idx_val.s).ok THEN PyInt(idx_val.s).val
        ELSE i

CsvTypeOfFile ==
    [f \in Range(CsvFiles) |->
        CASE f = "csv_summaries.jsonl" -> "csv_summary"
          [] f = "csv_notes.jsonl" -> "csv_note"
          [] f = "csv_full_notes.jsonl" -> "csv_full_note"
          [] f = "csv_conversations.jsonl" -> "csv_conv"]
\* ingest_csv_file(input_path, output_dir, row_ids): the four output files
\* are emptied, then every row kept by row_ids appends its records to the
\* file of their type. rows are the dicts the reader yields, numbered from 0.
IngestedRecords(rows, row_ids) ==
    Flatten([i \in 1..Len(rows) |->
        LET idx == RowIdx(rows[i], i - 1)
        IN  IF row_ids.some /\ idx \notin row_ids.v THEN <<>>
            ELSE process_csv_row(from_dict(rows[i], idx))])
ingest_csv_file(rows, dir, row_ids) ==
    LET records == IngestedRecords(rows, row_ids)
    IN  [f \in DOMAIN dir |->
            IF f \in Range(CsvFiles)
            THEN File(SelectSeq(records, LAMBDA r : r.evidence_type = CsvTypeOfFile[f]))
            ELSE dir[f]]

\* ------------------------------------------------------------------------
\* ingest/parsers.py, ingest/validate.py, pipeline/steps.py: ingest_all
\*
\* A raw file is its sequence of lines; a line is its text and what the
\* line regular expression of its file answers for it (kind): "lab" for a
\* line LAB_LINE_RE matches, "mon" for MONITOR_LINE_RE, "entry" for an
\* unindented line CODEBOOK_LINE_RE matches, "text" for any other line.
\* A record keeps the fields the index and the retriever read.
\* ------------------------------------------------------------------------
Line(kind, text) == [kind |-> kind, text |-> text]
IsBlank(line) == Strip(line.text) = <<>>
LegacyRecord(eid, text, first, last) ==
    [evidence_id |-> eid, raw_text |-> text, line_start |-> first, line_end |-> last]

RECURSIVE JoinLines(_)
JoinLines(texts) ==
    IF texts = <<>> THEN <<>>
    ELSE IF Len(texts) = 1 THEN texts[1]
    ELSE texts[1] \o <<"\n">> \o JoinLines(Tail(texts))

\* the loop shared by parse_narrative, parse_monitor_data and parse_labs:
\* one record per non-blank line of an accepted kind, numbered from 1
ParseLineRecords(lines, prefix, kinds) ==
    LET kept == SelectSeq([i \in 1..Len(lines) |-> i],
                          LAMBDA i : ~IsBlank(lines[i]) /\ lines[i].kind \in kinds)
    IN  [j \in 1..Len(kept) |->
            LegacyRecord(mk_id(prefix, j), lines[kept[j]].text, kept[j], kept[j])]
LineKinds == {"text", "lab", "mon", "entry"}
parse_narrative(lines) == ParseLineRecords(lines, <<"N">>, LineKinds)
parse_monitor_data(lines) == ParseLineRecords(lines, <<"M">>, {"mon"})
parse_labs(lines) == ParseLineRecords(lines, <<"L">>, {"lab"})

\* parse_monitor_codebook: an entry line opens a record, the non-blank lines
\* after it up to the next entry are appended to its raw_text
parse_monitor_codebook(lines) ==
    LET n       == Len(lines)
        entries == SelectSeq([i \in 1..n |-> i],
                             LAMBDA i : ~IsBlank(lines[i]) /\ lines[i].kind = "entry")
        upto(j) == IF j < Len(entries) THEN entries[j + 1] - 1 ELSE n
        body(j) == SelectSeq([i \in 1..n |-> i],
                             LAMBDA i : /\ i >= entries[j] /\ i <= upto(j)
                                        /\ ~IsBlank(lines[i]))
    IN  [j \in 1..Len(entries) |->
            LegacyRecord(mk_id(<<"C">>, j),
                         JoinLines([m \in 1..Len(body(j)) |-> lines[body(j)[m]].text]),
                         entries[j], body(j)[Len(body(j))])]

\* parse_domain_description: one record per maximal run of non-blank lines
parse_domain_description(lines) ==
    LET n      == Len(lines)
        starts == SelectSeq([i \in 1..n |-> i],
                            LAMBDA i : ~IsBlank(lines[i]) /\ (i = 1 \/ IsBlank(lines[i - 1])))
        stop(i) == CHOOSE e \in i..n :
                       /\ \A m \in i..e : ~IsBlank(lines[m])
                       /\ (e = n \/ IsBlank(lines[e + 1]))
    IN  [j \in 1..Len(starts) |->
            LegacyRecord(mk_id(<<"D">>, j),
                         Strip(JoinLines([m \in 1..(stop(starts[j]) - starts[j] + 1) |->
                                             lines[starts[j] + m - 1].text])),
                         starts[j], stop(starts[j]))]

\* ingest/validate.py ensure_unique_ids: TRUE when it does not raise
AllDistinctIds(recs) ==
    \A i, j \in 1..Len(recs) : i # j => recs[i].evidence_id # recs[j].evidence_id
ensure_unique_ids(recs) == AllDistinctIds(recs)

\* ingest_all(raw_dir, processed_dir): the processed directory it leaves and
\* whether it raised. raw.flowsheet.exists says whether a flowsheet file is
\* in raw_dir.
ingest_all(raw, dir) ==
    LET narrative_recs == parse_narrative(raw.patient)
        codebook_recs  == parse_monitor_codebook(raw.monitor_codes)
        monitor_recs   == parse_monitor_data(raw.monitor_data)
        lab_recs       == parse_labs(raw.labs)
        domain_recs    == parse_domain_description(raw.domain)
        all_recs == narrative_recs \o codebook_recs \o monitor_recs
                    \o lab_recs \o domain_recs
        written  == [dir EXCEPT !["narrative_spans.jsonl"] = File(narrative_recs),
                                !["codebook.jsonl"] = File(codebook_recs),
                                !["monitor.jsonl"] = File(monitor_recs),
                                !["labs.jsonl"] = File(lab_recs),
                                !["domain.jsonl"] = File(domain_recs)]
    IN  IF ~ensure_unique_ids(all_recs) THEN [raised |-> TRUE, dir |-> dir]
        ELSE [raised |-> FALSE,
              dir |-> IF raw.flowsheet.exists
                      THEN [written EXCEPT !["flowsheet.jsonl"] =
                                File(parse_labs(raw.flowsheet.rows))]
                      ELSE written]

\* ------------------------------------------------------------------------
\* rag/index_build.py
\* ------------------------------------------------------------------------
\* build_evidence_corpus: docs in file order, rows without an id skipped;
\* store[eid] is the last row read with that id
CorpusDocs(dir) ==
    Flatten([f \in 1..Len(CorpusFiles) |->
                IF dir[CorpusFiles[f]].exists
                THEN SelectSeq(dir[CorpusFiles[f]].rows, LAMBDA r : r.evidence_id # <<>>)
                ELSE <<>>])
build_evidence_corpus(dir) ==
    LET docs == CorpusDocs(dir)
        ids  == {docs[i].evidence_id : i \in 1..Len(docs)}
        last(eid) == SetMax({i \in 1..Len(docs) : docs[i].evidence_id = eid}, 0)
    IN  [docs |-> docs, store |-> [eid \in ids |-> docs[last(eid)]]]

NoIndices == [exists |-> FALSE, doc_ids |-> <<>>, texts |-> <<>>, store |-> <<>>]
\* build_and_save_indices: BM25Okapi raises on an empty corpus, before
\* anything is written; otherwise doc_ids.json, the two indices over the
\* texts and evidence_store.json are written
build_and_save_indices(dir, old) ==
    LET c == build_evidence_corpus(dir)
    IN  IF c.docs = <<>> THEN old
        ELSE [exists |-> TRUE,
              doc_ids |-> [i \in 1..Len(c.docs) |-> c.docs[i].evidence_id],
              texts |-> [i \in 1..Len(c.docs) |-> c.docs[i].raw_text],
              store |-> c.store]

\* ------------------------------------------------------------------------
\* rag/retrieve.py: HybridRetriever.hybrid_search
\*
\* The BM25 index and the embedder are libraries: a query is what they
\* answer for it, the raw BM25 score of every document (bm), its inner
\* product with the query (vec), and the order in which FAISS lists the
\* nearest neighbours (faiss_order, by decreasing vec, ties in any order).
\* A fused score is kept as the exact fraction num / den; all scores of one
\* search share one denominator. The 1e-9 added to both normalising
\* denominators is left out: it changes no score by more than 1e-9 of it.
\* ------------------------------------------------------------------------
BmWeight == 55
VecWeight == 45
WeightScale == 100
VecPoolFactor == 5
VecPoolMin == 20

Frac(n, d) == [num |-> n, den |-> d]
FracGE(a, b) == a.num * b.den >= b.num * a.den
FracGT(a, b) == a.num * b.den > b.num * a.den
FracEQ(a, b) == a.num * b.den = b.num * a.den
RECURSIVE Gcd(_, _)
Gcd(a, b) == IF b = 0 THEN a ELSE Gcd(b, a % b)
\* the product in lowest terms, so that the numbers stay small
Lowest(n, d) == IF n = 0 THEN Frac(0, 1) ELSE Frac(n \div Gcd(n, d), d \div Gcd(n, d))
FracMul(a, n, d) == Lowest(a.num * n, a.den * d)

\* sorted(items, key=lambda x: x.score, reverse=True): stable, so equal
\* scores keep the order they had in items
RECURSIVE InsertByScoreSwapped(_, _)
InsertByScoreSwapped(x, sorted) ==
    IF sorted = <<>> THEN <<x>>
    ELSE IF FracGE(x.score, Head(sorted).score)
         THEN <<Head(sorted)>> \o InsertByScoreSwapped(x, Tail(sorted))
         ELSE <<x>> \o sorted
RECURSIVE InsertByScore(_, _)
InsertByScore(x, sorted) ==
    IF sorted = <<>> THEN <<x>>
    ELSE IF FracGE(Head(sorted).score, x.score)
         THEN <<Head(sorted)>> \o InsertByScore(x, Tail(sorted))
         ELSE <<x>> \o sorted
RECURSIVE SortedByScoreDesc(_)
SortedByScoreDesc(items) ==
    IF items = <<>> THEN <<>>
    ELSE InsertByScore(items[Len(items)],
                       SortedByScoreDesc(SubSeq(items, 1, Len(items) - 1)))

\* seq[:k] for any integer k
PyPrefix(seq, k) ==
    SubSeq(seq, 1, IF k >= 0 THEN Min(k, Len(seq)) ELSE Max(Len(seq) + k, 0))

\* k = top_k or SETTINGS.top_k
EffectiveTopKZeroKept(top_k) == IF ~top_k.some THEN SettingsTopK ELSE top_k.v
EffectiveTopK(top_k) == IF ~top_k.some \/ top_k.v = 0 THEN SettingsTopK ELSE top_k.v

\* k=min(max(k * 5, 20), len(self.doc_ids)) of the FAISS search
VecPoolSize(k, n) == Min(Max(k * VecPoolFactor, VecPoolMin), n)

\* combined: the (doc index, fused score) items in dict insertion order, the
\* documents with a positive BM25 score first, by index, then the nearest
\* neighbours not already present, in FAISS order
Combined(retr, q, k) ==
    LET n      == Len(retr.doc_ids)
        bmmax  == SetMax({q.bm[i] : i \in 1..n}, 0)
        BM     == IF bmmax > 0 THEN bmmax ELSE 1
        vec_idx == SubSeq(q.faiss_order, 1, VecPoolSize(k, n))
        vs     == {q.vec[vec_idx[j]] : j \in 1..Len(vec_idx)}
        vmax   == SetMax(vs, 0)
        vmin   == 0 - SetMax({0 - v : v \in vs}, 0)
        VR     == IF vmax - vmin > 0 THEN vmax - vmin ELSE 1
        inVec(i) == \E j \in 1..Len(vec_idx) : vec_idx[j] = i
        bmPart(i)  == IF q.bm[i] > 0 THEN BmWeight * q.bm[i] * VR ELSE 0
        vecPart(i) == IF inVec(i) THEN VecWeight * (q.vec[i] - vmin) * BM ELSE 0
        item(i) == [doc_i |-> i, score |-> Frac(bmPart(i) + vecPart(i), WeightScale * BM * VR)]
        bmDocs  == SelectSeq([i \in 1..n |-> i], LAMBDA i : q.bm[i] > 0)
        vecOnly == SelectSeq(vec_idx, LAMBDA i : ~(q.bm[i] > 0))
    IN  [j \in 1..Len(bmDocs) |-> item(bmDocs[j])]
        \o [j \in 1..Len(vecOnly) |-> item(vecOnly[j])]

\* the loop building `out` from the ranked (doc index, score) items
ResultsOf(retr, ranked) ==
    [j \in 1..Len(ranked) |->
        [evidence_id |-> retr.doc_ids[ranked[j].doc_i],
         score |-> ranked[j].score,
         text |-> retr.store[retr.doc_ids[ranked[j].doc_i]].raw_text]]
Ranked(retr, q, k) == PyPrefix(SortedByScoreDesc(Combined(retr, q, k)), k)
hybrid_search(retr, q, top_k) == ResultsOf(retr, Ranked(retr, q, EffectiveTopK(top_k)))

\* ------------------------------------------------------------------------
\* rag/soap_retrieval.py
\* ------------------------------------------------------------------------
Sections == {"S", "O", "A", "P"}
BoostPrefixes ==
    [sec \in Sections |->
        CASE sec = "S" -> {<<"C", "V">>, <<"C", "N">>}
          [] sec = "O" -> {<<"C", "S">>, <<"L">>, <<"M">>}
          [] sec = "A" -> {<<"C", "S">>, <<"C", "F">>, <<"N">>}
          [] sec = "P" -> {<<"C", "S">>, <<"C", "N">>}]
KeywordHitCap == 5
NumericDensityMin == 3
\* SECTION_KEYWORDS[section]["boost"]
BoostS ==
    << <<"p","a","i","n">>,
       <<"f","e","l","l">>,
       <<"f","a","l","l">>,
       <<"h","u","r","t">>,
       <<"a","c","h","e">>,
       <<"c","a","n","n","o","t">>,
       <<"u","n","a","b","l","e">>,
       <<"w","o","r","s","e">>,
       <<"b","e","t","t","e","r">>,
       <<"d","u","r","a","t","i","o","n">>,
       <<"s","t","a","r","t","e","d">>,
       <<"b","e","g","a","n">>,
       <<"f","e","e","l","i","n","g">>,
       <<"c","o","m","p","l","a","i","n","s">>,
       <<"r","e","p","o","r","t","s">>,
       <<"s","t","a","t","e","s">>,
       <<"d","e","n","i","e","s">>,
       <<"h","i","s","t","o","r","y">>,
       <<"s","y","m","p","t","o","m">>,
       <<"c","o","m","p","l","a","i","n","t">>,
       <<"c","o","n","c","e","r","n">>,
       <<"w","o","r","r","i","e","d">>,
       <<"n","o","t","i","c","e","d">> >>
BoostO ==
    << <<"m","g","/","d","l">>,
       <<"m","m","o","l">>,
       <<"b","p","m">>,
       <<"m","m","h","g">>,
       <<"%">>,
       <<"m","g">>,
       <<"m","l">>,
       <<"k","g">>,
       <<"t","e","m","p","e","r","a","t","u","r","e">>,
       <<"p","u","l","s","e">>,
       <<"b","p">>,
       <<"r","e","s","p">>,
       <<"s","p","o","2">>,
       <<"h","r">>,
       <<"l","a","b">>,
       <<"v","i","t","a","l">>,
       <<"e","x","a","m">>,
       <<"f","i","n","d","i","n","g">>,
       <<"o","b","s","e","r","v","e","d">>,
       <<"m","e","a","s","u","r","e","d">>,
       <<"e","l","e","v","a","t","e","d">>,
       <<"d","e","c","r","e","a","s","e","d">>,
       <<"n","o","r","m","a","l">>,
       <<"a","b","n","o","r","m","a","l">>,
       <<"p","o","s","i","t","i","v","e">>,
       <<"n","e","g","a","t","i","v","e">> >>
BoostA ==
    << <<"d","i","a","g","n","o","s","i","s">>,
       <<"d","i","a","g","n","o","s","e","d">>,
       <<"i","m","p","r","e","s","s","i","o","n">>,
       <<"a","s","s","e","s","s","m","e","n","t">>,
       <<"p","r","o","b","l","e","m">>,
       <<"c","o","n","d","i","t","i","o","n">>,
       <<"d","i","s","o","r","d","e","r">>,
       <<"s","y","n","d","r","o","m","e">>,
       <<"d","i","s","e","a","s","e">>,
       <<"l","i","k","e","l","y">>,
       <<"p","r","o","b","a","b","l","e">>,
       <<"s","u","s","p","e","c","t">>,
       <<"d","i","f","f","e","r","e","n","t","i","a","l">>,
       <<"r","u","l","e"," ","o","u","t">>,
       <<"c","o","n","s","i","s","t","e","n","t"," ","w","i","t","h">>,
       <<"s","e","c","o","n","d","a","r","y"," ","t","o">>,
       <<"d","u","e"," ","t","o">>,
       <<"c","a","u","s","e","d"," ","b","y">>,
       <<"e","t","i","o","l","o","g","y">> >>
BoostP ==
    << <<"p","l","a","n">>,
       <<"o","r","d","e","r">>,
       <<"p","r","e","s","c","r","i","b","e">>,
       <<"r","e","c","o","m","m","e","n","d">>,
       <<"s","c","h","e","d","u","l","e">>,
       <<"f","o","l","l","o","w","-","u","p">>,
       <<"r","e","f","e","r">>,
       <<"c","o","n","s","u","l","t">>,
       <<"m","o","n","i","t","o","r">>,
       <<"c","o","n","t","i","n","u","e">>,
       <<"s","t","a","r","t">>,
       <<"s","t","o","p">>,
       <<"i","n","c","r","e","a","s","e">>,
       <<"d","e","c","r","e","a","s","e">>,
       <<"c","h","a","n","g","e">>,
       <<"t","r","e","a","t","m","e","n","t">>,
       <<"t","h","e","r","a","p","y">>,
       <<"m","e","d","i","c","a","t","i","o","n">>,
       <<"p","r","o","c","e","d","u","r","e">> >>
BoostKeywords ==
    [sec \in Sections |->
        CASE sec = "S" -> BoostS [] sec = "O" -> BoostO
          [] sec = "A" -> BoostA [] sec = "P" -> BoostP]
\* sum(1 for kw in boost_keywords if kw in text_lower)
KeywordHits(text, section) ==
    LET kws == BoostKeywords[section]
        low == Lower(text)
    IN  Cardinality({i \in 1..Len(kws) : Contains(low, kws[i])})
\* len(re.findall(r'\d+\.?\d*', text)): leftmost non-overlapping matches
RECURSIVE DigitRunEnd(_, _)
DigitRunEnd(t, i) == IF i <= Len(t) /\ IsDigit(t[i]) THEN DigitRunEnd(t, i + 1) ELSE i
RECURSIVE NumCountFrom(_, _)
NumCountFrom(t, i) ==
    IF i > Len(t) THEN 0
    ELSE IF ~IsDigit(t[i]) THEN NumCountFrom(t, i + 1)
    ELSE LET j == DigitRunEnd(t, i)
             e == IF j <= Len(t) /\ t[j] = "." THEN DigitRunEnd(t, j + 1) ELSE j
         IN  1 + NumCountFrom(t, e)
NumCount(text) == NumCountFrom(text, 1)

\* prefix = eid.split("_")[0] if "_" in eid else eid[0]
IdPrefix(eid) ==
    IF Contains(eid, <<"_">>) THEN SplitOn(eid, "_")[1] ELSE SubSeq(eid, 1, 1)

\* the four adjustments of compute_section_score, in its order
PrefixBoost(score, prefix, section) ==
    IF prefix \in BoostPrefixes[section] THEN FracMul(score, 13, 10) ELSE score
\* score *= 1.0 + 0.05 * min(keyword_hits, 5)
KeywordBoost(score, hits) ==
    IF hits > 0 THEN FracMul(score, 20 + Min(hits, KeywordHitCap), 20) ELSE score
NumericBoost(score, section, num_count) ==
    IF section = "O" /\ num_count >= NumericDensityMin THEN FracMul(score, 6, 5) ELSE score
BackgroundPenalty(score, prefix, section) ==
    IF prefix \in {<<"D">>, <<"C">>} /\ section \in {"S", "O"}
    THEN FracMul(score, 1, 2) ELSE score
compute_section_score(result, section, base_score) ==
    BackgroundPenalty(
        NumericBoost(
            KeywordBoost(PrefixBoost(base_score, IdPrefix(result.evidence_id), section),
                         KeywordHits(result.text, section)),
            section, NumCount(result.text)),
        IdPrefix(result.evidence_id), section)

rerank_for_section(results, section, top_k) ==
    LET scored == [i \in 1..Len(results) |->
                     [evidence_id |-> results[i].evidence_id,
                      score |-> compute_section_score(results[i], section, results[i].score),
                      text |-> results[i].text]]
    IN  PyPrefix(SortedByScoreDesc(scored), top_k)

filter_by_prefix(results, allowed_prefixes, blocked_prefixes) ==
    SelectSeq(results, LAMBDA r :
        /\ ~(allowed_prefixes # {} /\ IdPrefix(r.evidence_id) \notin allowed_prefixes)
        /\ ~(blocked_prefixes # {} /\ IdPrefix(r.evidence_id) \in blocked_prefixes))

\* one iteration of filter_by_row: whether r is kept
KeepsRowNoCompare(r, row_id) ==
    LET parts == SplitOn(r.evidence_id, "_")
    IN  IF Len(parts) >= 2 THEN PyInt(parts[2]).ok ELSE TRUE
KeepsRow(r, row_id) ==
    LET parts == SplitOn(r.evidence_id, "_")
    IN  IF Len(parts) >= 2
        THEN PyInt(parts[2]).ok /\ PyInt(parts[2]).val = row_id
        ELSE TRUE
filter_by_row(results, row_id) == SelectSeq(results, LAMBDA r : KeepsRow(r, row_id))

\* `if row_id is not None`
RowGiven(row_id) == row_id.some

\* build_section_pack, given what hybrid_search answers for the expanded
\* query with top_k * 3
RowFiltered(results, row_id) ==
    IF RowGiven(row_id) THEN filter_by_row(results, row_id.v) ELSE results
PatientOnly(results, section) ==
    IF section \in {"S", "O"}
    THEN filter_by_prefix(results, {}, {<<"D">>, <<"C">>}) ELSE results
SectionPackOf(results, section, row_id, top_k) ==
    [section |-> section,
     evidence |-> rerank_for_section(PatientOnly(RowFiltered(results, row_id), section),
                                     section, top_k)]
build_section_pack(retr, section, q, row_id, top_k) ==
    SectionPackOf(hybrid_search(retr, q, Some(top_k * 3)), section, row_id, top_k)

\* X or pack.evidence
OrElse(xs, ys) == IF xs # <<>> THEN xs ELSE ys

SubjectiveTopK == 8
ObjectiveTopK == 10
AssessmentTopK == 8
PlanTopK == 5
\* filter_by_prefix(pack.evidence, allowed_prefixes=...) or pack.evidence
Preferred(pack, allowed_prefixes) ==
    [section |-> pack.section,
     evidence |-> OrElse(filter_by_prefix(pack.evidence, allowed_prefixes, {}),
                         pack.evidence)]
build_subjective_pack(retr, q, row_id, top_k) ==
    Preferred(build_section_pack(retr, "S", q, row_id, top_k),
              {<<"C", "V">>, <<"C", "N">>, <<"N">>})
build_objective_pack(retr, q, row_id, top_k) ==
    Preferred(build_section_pack(retr, "O", q, row_id, top_k),
              {<<"C", "S">>, <<"L">>, <<"M">>, <<"C", "F">>})
build_assessment_pack(retr, q, row_id, top_k) ==
    build_section_pack(retr, "A", q, row_id, top_k)
\* build_plan_pack without missing_info, as build_all_packs calls it
build_plan_pack(retr, q, row_id) == build_section_pack(retr, "P", q, row_id, PlanTopK)

\* build_all_packs: qs[sec] is what the indices answer for the query of sec
build_all_packs(retr, qs, row_id) ==
    [sec \in Sections |->
        CASE sec = "S" -> build_subjective_pack(retr, qs["S"], row_id, SubjectiveTopK)
          [] sec = "O" -> build_objective_pack(retr, qs["O"], row_id, ObjectiveTopK)
          [] sec = "A" -> build_assessment_pack(retr, qs["A"], row_id, AssessmentTopK)
          [] sec = "P" -> build_plan_pack(retr, qs["P"], row_id)]

\* ------------------------------------------------------------------------
\* Ingestion: ingest_csv_file over input files of at most MaxRows rows
\* ------------------------------------------------------------------------
TxtPain == <<"p","a","i","n"," ","s","i","n","c","e"," ","m","o","n","d","a","y">>
TxtVitals == <<"b","p"," ","1","2","0"," ","8","0"," ","h","r"," ","6","0">>
TxtPlan == <<"p","l","a","n"," ","f","o","l","l","o","w","-","u","p">>
TxtTalk == <<"P","a","t","i","e","n","t",":"," ","i","t"," ","h","u","r","t","s"," ","D","r",":"," ","o","k">>
TxtNotJson == <<"n","o","t"," ","j","s","o","n">>
TxtSummary == <<"{","\"","b","p","\"",":","\"","1","2","0","\"",",","\"","d","x","\"",":","[","\"","f","l","u","\"","]","}">>
JsonSummary == JDict(<<KV(<<"b","p">>, JStr(<<"1","2","0">>)),
                       KV(<<"d","x">>, JList(<<JStr(<<"f","l","u">>)>>))>>)
\* a note of 600 characters, a sentence end every 97
LongNote ==
    [i \in 1..600 |-> IF i % 97 = 0 THEN "." ELSE IF i % 97 = 1 /\ i > 1 THEN " " ELSE "a"]

NoSummary == [raw |-> <<>>, valid |-> FALSE, json |-> JNull]
Row(idx, id, ID, note, full_note, conversation, summary_json) ==
    [idx |-> idx, id |-> id, ID |-> ID, note |-> note, full_note |-> full_note,
     conversation |-> conversation, summary_json |-> summary_json]
\* the id columns of a row: none, a CSV cell, a JSON integer, a cell that is
\* no number, the same number under another column name, a null
RowKeys ==
    { <<Absent, Absent, Absent>>, <<IdStr(<<"1">>), Absent, Absent>>,
      <<IdInt(7), Absent, Absent>>, <<IdStr(<<"x">>), Absent, Absent>>,
      <<Absent, IdStr(<<"0">>), Absent>>, <<Absent, Absent, IdInt(1)>>,
      <<IdNull, IdStr(<<"5">>), Absent>> }
RowContents ==
    { <<TxtPain, <<>>, <<>>, NoSummary>>,
      <<<<>>, LongNote, <<>>, NoSummary>>,
      <<<<>>, <<>>, TxtTalk, NoSummary>>,
      <<TxtVitals, <<>>, <<>>, [raw |-> TxtSummary, valid |-> TRUE, json |-> JsonSummary]>>,
      <<<<>>, <<>>, <<>>, [raw |-> TxtNotJson, valid |-> FALSE, json |-> JNull]>> }
CsvRows ==
    {Row(k[1], k[2], k[3], c[1], c[2], c[3], c[4]) : k \in RowKeys, c \in RowContents}
MaxRows == 2
CsvInputs == SeqsUpTo(CsvRows, MaxRows)
RowIdFilters == {Nothing, Some({1})}

IngestInit ==
    /\ processed = EmptyDir
    /\ indices = NoIndices

\* ingest_csv_file(input_path, output_dir, row_ids), one run of the ingest
\* command per output directory: what it writes does not depend on what the
\* directory held
IngestCsvFile(rows, row_ids) ==
    /\ \A f \in Range(CsvFiles) : ~processed[f].exists
    /\ processed' = ingest_csv_file(rows, processed, row_ids)
    /\ UNCHANGED indices
    /\ UNCHANGED notIngestVars

IngestNext == \E rows \in CsvInputs, row_ids \in RowIdFilters : IngestCsvFile(rows, row_ids)

CsvOutput == Flatten([f \in 1..Len(CsvFiles) |-> processed[CsvFiles[f]].rows])

\* C1: whatever file ingest_csv_file was given, the evidence_ids of the
\* records in its four output files are pairwise distinct.
C1_CsvIdsPairwiseDistinct == AllDistinctIds(CsvOutput)

\* ------------------------------------------------------------------------
\* Indexing: ingest_all and ingest_csv_file fill the processed directory,
\* build_and_save_indices indexes it, a HybridRetriever is opened on the
\* indices and searched
\* ------------------------------------------------------------------------
NoLines == <<>>
NoFlowsheet == [exists |-> FALSE, rows |-> <<>>]
RawDir(patient, monitor_codes, monitor_data, labs, domain, flowsheet) ==
    [patient |-> patient, monitor_codes |-> monitor_codes, monitor_data |-> monitor_data,
     labs |-> labs, domain |-> domain, flowsheet |-> flowsheet]
TxtLab == <<"0","1","/","0","2","/","9","5"," ","1","0",":","3","0"," ","P","T"," ","1","2",".","5">>
TxtCode == <<"7","6"," ","F","i","O","2"," ","(","%",")">>
TxtUnit == <<" "," ","p","e","r","c","e","n","t">>
TxtDomain == <<"T","h","e"," ","l","i","v","e","r",".">>
\* a patient description of two equal lines around a blank one
RawNarrative ==
    RawDir(<<Line("text", TxtPain), Line("text", <<" ">>), Line("text", TxtPain)>>,
           NoLines, NoLines, NoLines, NoLines, NoFlowsheet)
\* a lab file and a flowsheet file with one lab line each
RawLabsAndFlowsheet ==
    RawDir(NoLines, NoLines, NoLines,
           <<Line("text", TxtDomain), Line("lab", TxtLab)>>, NoLines,
           File(<<Line("lab", TxtLab)>>))
RawLabsOnly ==
    RawDir(<<Line("text", TxtPain)>>, NoLines, NoLines, <<Line("lab", TxtLab)>>,
           NoLines, NoFlowsheet)
\* a codebook entry with a continuation line and a domain paragraph
RawBackground ==
    RawDir(NoLines, <<Line("entry", TxtCode), Line("text", TxtUnit)>>, NoLines, NoLines,
           <<Line("text", TxtDomain), Line("text", TxtDomain), Line("text", <<>>)>>,
           NoFlowsheet)
RawDirs == {RawNarrative, RawLabsAndFlowsheet, RawLabsOnly, RawBackground}

NoteRow(idx, note) == Row(idx, Absent, Absent, note, <<>>, <<>>, NoSummary)
\* the rows 1 and 11, by idx
CsvTwoRows == <<NoteRow(IdStr(<<"1">>), TxtPain), NoteRow(IdStr(<<"1", "1">>), TxtVitals)>>
\* a row numbered by its position and a row of a negative idx
TxtOneFact == <<"{","\"","b","p","\"",":","\"","1","2","0","\"","}">>
CsvDefaultedRows ==
    <<NoteRow(Absent, TxtVitals),
      Row(IdInt(0 - 1), Absent, Absent, <<>>, <<>>, <<>>,
          [raw |-> TxtOneFact, valid |-> TRUE,
           json |-> JDict(<<KV(<<"b","p">>, JStr(<<"1","2","0">>))>>)])>>
\* two rows of the same idx
CsvRepeatedIdx == <<NoteRow(IdStr(<<"1">>), TxtPain), NoteRow(IdInt(1), TxtVitals)>>
CsvOneRow == <<NoteRow(IdStr(<<"1">>), TxtPain)>>
IndexCsvInputs == {CsvOneRow, CsvRepeatedIdx}

\* ingest_all(raw_dir, processed_dir), one run per processed directory
IngestAll(raw) ==
    /\ ~indices.exists /\ ~retriever.loaded
    /\ \A f \in Range(LegacyFiles) : ~processed[f].exists
    /\ processed' = ingest_all(raw, processed).dir
    /\ UNCHANGED indices
    /\ UNCHANGED notIngestVars

\* ingest_csv_file before the indices are built
IngestCsvForIndex(rows) ==
    /\ ~indices.exists
    /\ IngestCsvFile(rows, Nothing)

\* build_and_save_indices(processed_dir, indices_dir)
BuildAndSaveIndices ==
    /\ ~indices.exists
    /\ indices' = build_and_save_indices(processed, indices)
    /\ UNCHANGED processed
    /\ UNCHANGED notIngestVars

\* HybridRetriever(indices_dir)
HybridRetriever(ind) == [loaded |-> TRUE, doc_ids |-> ind.doc_ids, store |-> ind.store]
NoRetriever == [loaded |-> FALSE, doc_ids |-> <<>>, store |-> <<>>]
NoCall == [called |-> FALSE]

SearchInit ==
    /\ retriever = NoRetriever
    /\ hs_call = NoCall
    /\ hs_out = <<>>
    /\ pack_call = NoCall
    /\ packs = <<>>

OpenRetriever ==
    /\ indices.exists
    /\ ~retriever.loaded
    /\ retriever' = HybridRetriever(indices)
    /\ UNCHANGED <<hs_call, hs_out, pack_call, packs>>
    /\ UNCHANGED notSearchVars

\* What the two indices answer for one query over n documents: scores up to
\* MaxScore, and the nearest neighbours by decreasing inner product
MaxScore == 1
IsFaissOrder(vec, order) ==
    /\ \A i, j \in DOMAIN order : i # j => order[i] # order[j]
    /\ \A i, j \in DOMAIN order : i < j => vec[order[i]] >= vec[order[j]]
FaissOrders(n, vec) == {order \in [1..n -> 1..n] : IsFaissOrder(vec, order)}
Query(bm, vec, faiss_order) == [bm |-> bm, vec |-> vec, faiss_order |-> faiss_order]
Queries(n) ==
    UNION {{Query(bm, vec, order) : bm \in [1..n -> 0..MaxScore],
                                    order \in FaissOrders(n, vec)} :
           vec \in [1..n -> 0..MaxScore]}
MaxTopK == 2
TopKs == {Nothing} \cup {Some(k) : k \in 0..MaxTopK}

\* hybrid_search(query, top_k). No call changes the retriever, so a call
\* answers the same whatever was called before it: one call per behaviour
HybridSearch ==
    /\ retriever.loaded
    /\ ~hs_call.called /\ ~pack_call.called
    /\ \E q \in Queries(Len(retriever.doc_ids)), top_k \in TopKs :
          /\ hs_call' = [called |-> TRUE, q |-> q, top_k |-> top_k]
          /\ hs_out' = hybrid_search(retriever, q, top_k)
    /\ UNCHANGED <<retriever, pack_call, packs>>
    /\ UNCHANGED notSearchVars

\* build_section_pack(section, query, row_id, top_k); retrieved is what
\* hybrid_search handed to the filters
RowIds == {Nothing, Some(0 - 1), Some(0), Some(1), Some(11)}
PackTopKs == {1, 10}
RetrievedIds(results) == [j \in 1..Len(results) |-> results[j].evidence_id]
BuildSectionPack ==
    /\ retriever.loaded
    /\ ~hs_call.called /\ ~pack_call.called
    /\ \E section \in Sections, q \in Queries(Len(retriever.doc_ids)),
          row_id \in RowIds, top_k \in PackTopKs :
          /\ pack_call' = [called |-> TRUE, q |-> q, row_id |-> row_id,
                           retrieved |-> RetrievedIds(hybrid_search(retriever, q, Some(top_k * 3)))]
          /\ packs' = [sec \in {section} |->
                          build_section_pack(retriever, section, q, row_id, top_k)]
    /\ UNCHANGED <<retriever, hs_call, hs_out>>
    /\ UNCHANGED notSearchVars

\* build_all_packs(queries, row_id), the indices answering the four section
\* queries alike; retrieved is what the widest of the four searches returned
BuildAllPacks ==
    /\ retriever.loaded
    /\ ~hs_call.called /\ ~pack_call.called
    /\ \E q \in Queries(Len(retriever.doc_ids)), row_id \in RowIds :
          /\ pack_call' = [called |-> TRUE, q |-> q, row_id |-> row_id,
                           retrieved |-> RetrievedIds(hybrid_search(retriever, q, Some(ObjectiveTopK * 3)))]
          /\ packs' = build_all_packs(retriever, [sec \in Sections |-> q], row_id)
    /\ UNCHANGED <<retriever, hs_call, hs_out>>
    /\ UNCHANGED notSearchVars

\* The processed directories searched: rows 1 and 11 beside a narrative
\* line, rows 0 and -1, background documents only, two equal narrative lines
RawOneLine ==
    RawDir(<<Line("text", TxtPain)>>, NoLines, NoLines, NoLines, NoLines, NoFlowsheet)
SearchDirs ==
    {ingest_all(RawOneLine, ingest_csv_file(CsvTwoRows, EmptyDir, Nothing)).dir,
     ingest_csv_file(CsvDefaultedRows, EmptyDir, Nothing),
     ingest_all(RawBackground, EmptyDir).dir,
     ingest_all(RawNarrative, EmptyDir).dir}

\* a retriever opened on the indices built over one of the directories
SearchReady ==
    /\ processed \in SearchDirs
    /\ indices = build_and_save_indices(processed, NoIndices)
    /\ retriever = HybridRetriever(indices)
    /\ hs_call = NoCall
    /\ hs_out = <<>>
    /\ pack_call = NoCall
    /\ packs = <<>>

SearchNext ==
    \/ HybridSearch
    \/ BuildSectionPack
    \/ BuildAllPacks

IndexNext ==
    \/ \E raw \in RawDirs : IngestAll(raw)
    \/ \E rows \in IndexCsvInputs : IngestCsvForIndex(rows)
    \/ BuildAndSaveIndices
    \/ OpenRetriever
    \/ HybridSearch

\* ------------------------------------------------------------------------
\* Properties of indexing and retrieval
\* ------------------------------------------------------------------------
DistinctSeq(ids) == \A i, j \in 1..Len(ids) : i # j => ids[i] # ids[j]

\* C2: a corpus in which two records share an evidence_id is never indexed:
\* whenever build_and_save_indices has persisted doc_ids and the evidence
\* store, the ids of the processed files it indexed are pairwise distinct.
C2_DuplicateIdsNeverIndexed ==
    indices.exists => DistinctSeq(indices.doc_ids)

\* C9: no evidence_id appears more than once in the list hybrid_search
\* returns over a corpus indexed by build_and_save_indices.
C9_NoDuplicateIdsInResults ==
    hs_call.called => DistinctSeq(RetrievedIds(hs_out))

\* C7: for every top_k passed by the caller, hybrid_search returns a list of
\* length at most top_k.
C7_AtMostTopKResults ==
    (hs_call.called /\ hs_call.top_k.some) => Len(hs_out) <= hs_call.top_k.v

CsvIdPrefixes == {<<"C", "S">>, <<"C", "N">>, <<"C", "F">>, <<"C", "V">>}
RowUniverse == (0 - 2)..12
EncodedRows(eid) ==
    {r \in RowUniverse :
        \E prefix \in CsvIdPrefixes :
            StartsWith(eid, prefix \o <<"_">> \o IntToStr(r) \o <<"_">>)}
PackedIds ==
    UNION {{packs[sec].evidence[j].evidence_id : j \in 1..Len(packs[sec].evidence)} :
           sec \in DOMAIN packs}

\* C6: every evidence pack built with row_id = r, by build_section_pack or
\* as one of the S/O/A/P packs of build_all_packs, contains no evidence whose
\* id encodes a row number different from r.
C6_PacksHoldOnlyTheTargetRow ==
    (pack_call.called /\ pack_call.row_id.some) =>
        \A eid \in PackedIds : EncodedRows(eid) \subseteq {pack_call.row_id.v}
\* a pack built for a row from results holding evidence of another row, the
\* evidence of the target row kept
C6_Witness ==
    /\ pack_call.called /\ pack_call.row_id.some
    /\ \E j \in 1..Len(pack_call.retrieved) :
          EncodedRows(pack_call.retrieved[j]) \ {pack_call.row_id.v} # {}
    /\ \E eid \in PackedIds : EncodedRows(eid) = {pack_call.row_id.v}


\* ------------------------------------------------------------------------
\* pipeline/differential_cleanup.py
\* ------------------------------------------------------------------------
WeakRule(key, remove_labels, remove_values) ==
    [key |-> key, remove_labels |-> remove_labels, remove_values |-> remove_values]
\* WEAK_SUPPORT_RULES, in the order of the dict
WEAK_SUPPORT_RULES ==
    << WeakRule(<<"a","k","i">>, <<<<"r","b","c">>, <<"r","b","c"," ","e","l","e","v","a","t","i","o","n">>, <<"r","e","d"," ","b","l","o","o","d"," ","c","e","l","l">>>>,
                <<<<"r","b","c"," ","e","l","e","v","a","t","i","o","n">>, <<"r","b","c">>>>),
       WeakRule(<<"a","c","u","t","e"," ","k","i","d","n","e","y"," ","i","n","j","u","r","y">>, <<<<"r","b","c">>, <<"r","b","c"," ","e","l","e","v","a","t","i","o","n">>, <<"r","e","d"," ","b","l","o","o","d"," ","c","e","l","l">>>>,
                <<<<"r","b","c"," ","e","l","e","v","a","t","i","o","n">>, <<"r","b","c">>>>),
       WeakRule(<<"c","o","a","g","u","l","o","p","a","t","h","y">>, <<<<"b","u","n">>, <<"e","l","e","v","a","t","e","d"," ","b","u","n">>>>, <<<<"e","l","e","v","a","t","e","d"," ","b","u","n">>>>) >>

\* the rule of the first key that occurs in the lowered diagnosis, if any
ApplicableRules(dx) ==
    SelectSeq(WEAK_SUPPORT_RULES, LAMBDA rule : Contains(Lower(dx.diagnosis), rule.key))
should_remove(rule, s) ==
    \/ \E i \in 1..Len(rule.remove_labels) : Contains(Lower(s.label), rule.remove_labels[i])
    \/ \E i \in 1..Len(rule.remove_values) : Contains(Lower(s.value), rule.remove_values[i])
WithSupport(dx, support) == [dx EXCEPT !.support = support]
CleanWeak(dx, rules) ==
    IF rules = <<>> THEN dx
    ELSE WithSupport(dx, SelectSeq(dx.support, LAMBDA s : ~should_remove(rules[1], s)))
clean_weak_supports(dx_out) ==
    [i \in 1..Len(dx_out) |-> CleanWeak(dx_out[i], ApplicableRules(dx_out[i]))]

MinSupports == 2
MissingDefault == <<"A","d","d","i","t","i","o","n","a","l"," ","c","l","i","n","i","c","a","l"," ","o","r"," ","l","a","b"," ","e","v","i","d","e","n","c","e"," ","n","e","e","d","e","d"," ","t","o"," ","c","o","n","f","i","r","m"," ","d","i","a","g","n","o","s","i","s">>
\* the mutation of one diagnosis by enforce_minimum_supports
EnforceOne(dx) ==
    IF Len(dx.support) < MinSupports
    THEN [dx EXCEPT !.confidence = "low",
                    !.missing = IF dx.missing = <<>> THEN <<MissingDefault>> ELSE dx.missing]
    ELSE dx
enforce_minimum_supports(dx_out) == [i \in 1..Len(dx_out) |-> EnforceOne(dx_out[i])]

CORRECT_KASAI_ID == mk_id(<<"N">>, 2)
MentionsKasai(s) ==
    Contains(Lower(s.label), <<"k","a","s","a","i">>) \/ Contains(Lower(s.value), <<"k","a","s","a","i">>)
FixKasaiFact(s) ==
    IF MentionsKasai(s) /\ CORRECT_KASAI_ID \notin Range(s.evidence_ids)
    THEN [s EXCEPT !.evidence_ids = <<CORRECT_KASAI_ID>>]
    ELSE s
fix_kasai_evidence_id(dx_out) ==
    [i \in 1..Len(dx_out) |->
        WithSupport(dx_out[i],
                    [j \in 1..Len(dx_out[i].support) |-> FixKasaiFact(dx_out[i].support[j])])]

\* deduplicate_diagnoses only logs
deduplicate_diagnoses(dx_out) == dx_out

\* the cleanups in another order, the minimum enforced before the weak
\* supports are removed
run_all_cleanups_enforce_first(dx_out) ==
    deduplicate_diagnoses(
        clean_weak_supports(enforce_minimum_supports(fix_kasai_evidence_id(dx_out))))
run_all_cleanups(dx_out) ==
    deduplicate_diagnoses(
        enforce_minimum_supports(clean_weak_supports(fix_kasai_evidence_id(dx_out))))

\* The differentials the cleanups and the quality gate are called with
FactRbc == Fact(<<"R","B","C">>, <<"R","B","C"," ","e","l","e","v","a","t","i","o","n">>, <<IdL1>>)
FactKasai == Fact(<<"K","a","s","a","i">>, <<"d","o","n","e">>, <<IdN1>>)
FactPt == Fact(<<"P","T">>, <<"h","i","g","h">>, <<>>)
GateSupportLists ==
    {<<>>, <<FactKasai>>, <<FactRbc, FactKasai>>, <<FactKasai, FactPt>>,
     <<FactRbc, FactKasai, FactPt>>}
GateDxPool ==
    {Dx(name, s, <<>>, m, conf) :
        name \in {<<"A","K","I">>, <<"S","e","p","s","i","s">>}, s \in GateSupportLists,
        m \in {<<>>, <<TxtB>>}, conf \in {"high", "low"}}
MaxDx == 2
GateDxOuts == SeqsUpTo(GateDxPool, MaxDx)

RunAllCleanupsCall ==
    /\ ~fn_call.called
    /\ \E dx_out \in GateDxOuts :
          /\ fn_call' = [called |-> TRUE, fn |-> "run_all_cleanups", arg |-> dx_out]
          /\ fn_out' = run_all_cleanups(dx_out)
    /\ UNCHANGED notFnVars
CleanupNext == RunAllCleanupsCall

\* C14: after run_all_cleanups, every diagnosis whose support list has fewer
\* than 2 items has confidence "low" and a non-empty missing list.
C14_FewSupportsMeansLowConfidence ==
    (fn_call.called /\ fn_call.fn = "run_all_cleanups") =>
        \A i \in 1..Len(fn_out) :
            Len(fn_out[i].support) < 2 =>
                fn_out[i].confidence = "low" /\ fn_out[i].missing # <<>>
\* a diagnosis of two supports and high confidence that the cleanups left
\* with one support, low confidence and the default discriminator
C14_Witness ==
    /\ fn_call.called /\ fn_call.fn = "run_all_cleanups"
    /\ \E i \in 1..Len(fn_out) :
          /\ Len(fn_call.arg[i].support) = 2
          /\ fn_call.arg[i].confidence = "high"
          /\ fn_call.arg[i].missing = <<>>
          /\ Len(fn_out[i].support) = 1
          /\ fn_out[i].confidence = "low"
          /\ fn_out[i].missing = <<MissingDefault>>


\* ------------------------------------------------------------------------
\* pipeline/quality_gate.py
\* An ICUStructuredSummary is a record of twelve bullet lists; warnings and
\* errors are kept as the lists of their messages' kinds.
\* ------------------------------------------------------------------------
IcuSections ==
    <<"patient_info", "primary_problems", "respiratory", "cardiovascular", "hepatic",
      "renal", "hematology_coag", "infectious", "neurologic", "key_labs", "supports",
      "procedures">>
all_bullets(summary) == Flatten([i \in 1..Len(IcuSections) |-> summary[IcuSections[i]]])
count_icu_summary_bullets(summary) == Len(all_bullets(summary))

MinTotalBullets == 6
MinPrimaryProblems == 1
MinKeyLabs == 2
SummaryErrorPenalty == 20
SummaryWarningPenalty == 10
PassScore == 60
Clamp(score) == Max(0, Min(100, score))
QualityGateResult(passed, score, warnings, errors) ==
    [passed |-> passed, score |-> score, warnings |-> warnings, errors |-> errors]
\* the score and the verdict of evaluate_summary_quality from its two lists
SummaryGate(warnings, errors) ==
    QualityGateResult(
        errors = <<>> /\ Clamp(100 - Len(errors) * SummaryErrorPenalty
                                   - Len(warnings) * SummaryWarningPenalty) >= PassScore,
        Clamp(100 - Len(errors) * SummaryErrorPenalty - Len(warnings) * SummaryWarningPenalty),
        warnings, errors)
SummaryWarnings(summary) ==
    (IF count_icu_summary_bullets(summary) < MinTotalBullets THEN <<"few bullets">> ELSE <<>>)
    \o (IF Len(summary.key_labs) < MinKeyLabs THEN <<"few key labs">> ELSE <<>>)
SummaryErrors(summary) ==
    (IF Len(summary.primary_problems) < MinPrimaryProblems
     THEN <<"no primary problems">> ELSE <<>>)
    \o (IF \E i \in 1..Len(all_bullets(summary)) : all_bullets(summary)[i].evidence_ids = <<>>
        THEN <<"bullets missing evidence_ids">> ELSE <<>>)
evaluate_summary_quality(summary) ==
    SummaryGate(SummaryWarnings(summary), SummaryErrors(summary))

MinDifferential == 3
DxErrorPenalty == 25
DxWarningPenalty == 8
TargetBonus == 5
\* OVERLAP_PATTERNS
OVERLAP_PATTERNS ==
    << {<<"h","e","p","a","t","i","c">>, <<"l","i","v","e","r">>}, {<<"s","e","p","s","i","s">>, <<"s","e","p","t","i","c">>}, {<<"a","r","d","s">>, <<"r","e","s","p","i","r","a","t","o","r","y">>} >>
OverlapWarnings(dx_out) ==
    Flatten([k \in 1..Len(OVERLAP_PATTERNS) |->
        IF Len(SelectSeq(dx_out, LAMBDA dx :
                   \E pat \in OVERLAP_PATTERNS[k] : Contains(Lower(dx.diagnosis), pat))) > 1
        THEN <<"overlapping diagnoses">> ELSE <<>>])
\* the warnings and errors of one iteration of `for dx in dx_out.differential`
DxWarnings(dx) ==
    (IF Len(dx.support) < MinSupports THEN <<"few supports">> ELSE <<>>)
    \o (IF Len(dx.missing) < 1 THEN <<"no missing discriminators">> ELSE <<>>)
DxErrors(dx) ==
    [i \in 1..Len(SelectSeq(dx.support, LAMBDA s : s.evidence_ids = <<>>)) |->
        "support has no evidence_ids"]
RECURSIVE SumLen(_, _)
SumLen(dx_out, field) ==
    IF dx_out = <<>> THEN 0 ELSE Len(Head(dx_out)[field]) + SumLen(Tail(dx_out), field)
\* round(total / dx_count, 1) >= target, the average in tenths rounded to
\* the nearest (no average of fewer than 20 diagnoses lies on a half tenth)
AvgAtLeast(total, dx_count, target) ==
    (20 * total + dx_count) \div (2 * dx_count) >= 10 * target
DxBonus(dx_out) ==
    (IF Len(dx_out) >= MinDifferential THEN TargetBonus ELSE 0)
    + (IF AvgAtLeast(SumLen(dx_out, "support"), Len(dx_out), 2) THEN TargetBonus ELSE 0)
    + (IF AvgAtLeast(SumLen(dx_out, "missing"), Len(dx_out), 1) THEN TargetBonus ELSE 0)
DxGate(warnings, errors, bonus) ==
    QualityGateResult(
        errors = <<>> /\ Clamp(100 - Len(errors) * DxErrorPenalty
                                   - Len(warnings) * DxWarningPenalty + bonus) >= PassScore,
        Clamp(100 - Len(errors) * DxErrorPenalty - Len(warnings) * DxWarningPenalty + bonus),
        warnings, errors)
evaluate_differential_quality(dx_out) ==
    IF Len(dx_out) = 0
    THEN QualityGateResult(FALSE, 0, <<>>, <<"no differential diagnoses">>)
    ELSE DxGate((IF Len(dx_out) < MinDifferential THEN <<"few items">> ELSE <<>>)
                \o Flatten([i \in 1..Len(dx_out) |-> DxWarnings(dx_out[i])])
                \o OverlapWarnings(dx_out),
                Flatten([i \in 1..Len(dx_out) |-> DxErrors(dx_out[i])]),
                DxBonus(dx_out))

\* The summaries the gate is called with: every section empty or filled
\* with cited bullets, one of them possibly with an uncited bullet
CitedBullet == Bullet(TxtA, <<IdN1>>)
UncitedBullet == Bullet(TxtB, <<>>)
IcuSummary(info, problems, resp, labs, supports) ==
    [sec \in Range(IcuSections) |->
        CASE sec = "patient_info" -> info
          [] sec = "primary_problems" -> problems
          [] sec = "respiratory" -> resp
          [] sec = "key_labs" -> labs
          [] sec = "supports" -> supports
          [] OTHER -> <<>>]
BulletLists(n) == {[i \in 1..m |-> CitedBullet] : m \in 0..n}
GateSummaries ==
    {IcuSummary(info, problems, resp, labs, supports) :
        info \in BulletLists(MaxBullets), problems \in BulletLists(MaxBullets),
        resp \in {<<>>, <<CitedBullet>>, <<UncitedBullet>>},
        labs \in BulletLists(MaxBullets), supports \in BulletLists(MaxBullets)}
GateTriples == {<<d, d, d>> : d \in GateDxPool}

EvaluateSummaryQualityCall(summary) ==
    /\ ~fn_call.called
    /\ fn_call' = [called |-> TRUE, fn |-> "evaluate_summary_quality", arg |-> summary]
    /\ fn_out' = evaluate_summary_quality(summary)
    /\ UNCHANGED notFnVars
EvaluateDifferentialQualityCall(dx_out) ==
    /\ ~fn_call.called
    /\ fn_call' = [called |-> TRUE, fn |-> "evaluate_differential_quality", arg |-> dx_out]
    /\ fn_out' = evaluate_differential_quality(dx_out)
    /\ UNCHANGED notFnVars
QualityNext ==
    \/ \E summary \in GateSummaries : EvaluateSummaryQualityCall(summary)
    \/ \E dx_out \in GateDxOuts \cup GateTriples : EvaluateDifferentialQualityCall(dx_out)

\* score == max(0, min(100, 100 - Pe * |errors| - Pw * |warnings|))
PenaltyScore(result, pe, pw) ==
    Max(0, Min(100, 100 - pe * Len(result.errors) - pw * Len(result.warnings)))
\* C13: the score of each quality evaluator is 100 less its per-error
\* penalty for each error and its per-warning penalty for each warning of
\* the returned result, clamped to 0..100 (20 and 10 for the summary, 25 and
\* 8 for the differential); 0 errors and 2 warnings at 20/10 give score 80
\* and passed.
C13_ScoreIsPenaltyFormula ==
    /\ (fn_call.called /\ fn_call.fn = "evaluate_summary_quality") =>
          /\ fn_out.score = PenaltyScore(fn_out, 20, 10)
          /\ (Len(fn_out.errors) = 0 /\ Len(fn_out.warnings) = 2) =>
                (fn_out.score = 80 /\ fn_out.passed)
    /\ (fn_call.called /\ fn_call.fn = "evaluate_differential_quality") =>
          fn_out.score = PenaltyScore(fn_out, 25, 8)


\* ------------------------------------------------------------------------
\* pipeline/deterministic_summary.py: build_summary_candidates
\* pipeline/run_llm.py: main
\* ------------------------------------------------------------------------
LabelledBullets(facts) ==
    [i \in 1..Len(facts) |->
        Bullet(facts[i].label \o <<":"," ">> \o facts[i].value, facts[i].evidence_ids)]
ValueBullets(head, facts, n) ==
    [i \in 1..Min(n, Len(facts)) |-> Bullet(head \o facts[i].value, facts[i].evidence_ids)]
LabBullets(facts, n) ==
    [i \in 1..Min(n, Len(facts)) |->
        Bullet(<<"L","a","b",":"," ">> \o facts[i].label \o <<" ","="," ">> \o facts[i].value, facts[i].evidence_ids)]
\* the de-duplication loop: the first bullet of each text, if it is cited
RECURSIVE DedupeCited(_, _)
DedupeCited(bullets, seen) ==
    IF bullets = <<>> THEN <<>>
    ELSE IF Head(bullets).text \notin seen /\ Head(bullets).evidence_ids # <<>>
         THEN <<Head(bullets)>> \o DedupeCited(Tail(bullets), seen \cup {Head(bullets).text})
         ELSE DedupeCited(Tail(bullets), seen)
build_summary_candidates(ps) ==
    PyPrefix(DedupeCited(LabelledBullets(ps.demographics)
                         \o ValueBullets(<<"P","r","o","b","l","e","m",":"," ">>, ps.diagnoses, 5)
                         \o ValueBullets(<<"P","r","o","c","e","d","u","r","e","/","h","i","s","t","o","r","y",":"," ">>, ps.procedures, 3)
                         \o ValueBullets(<<"M","e","d","i","c","a","t","i","o","n",":"," ">>, ps.meds, 5)
                         \o LabBullets(ps.timeline, 6), {}),
             10)

\* lines 137-146: an empty against list gets one uncited placeholder fact
NoContradiction ==
    Fact(<<"N","o"," ","d","o","c","u","m","e","n","t","e","d"," ","c","o","n","t","r","a","d","i","c","t","o","r","y"," ","e","v","i","d","e","n","c","e">>,
         <<"N","o"," ","e","x","p","l","i","c","i","t"," ","n","e","g","a","t","i","n","g"," ","f","i","n","d","i","n","g","s"," ","i","n"," ","a","v","a","i","l","a","b","l","e"," ","r","e","c","o","r","d","s">>, <<>>)
PopulateAgainst(dx_out) ==
    [i \in 1..Len(dx_out) |->
        IF dx_out[i].against = <<>>
        THEN [dx_out[i] EXCEPT !.against = <<NoContradiction>>]
        ELSE dx_out[i]]

\* the eight files of the Persist block, lines 166-173
PersistedFiles ==
    {"patient_state.json", "summary.json", "icu_summary.json", "differential.json",
     "final_output.json", "verification_summary.json", "verification_differential.json",
     "quality_gate.json"}

\* lines 48-62: the extraction call and the parse of its answer; either may
\* raise, before anything is written
RunExtraction(ps) ==
    /\ run.pc = "idle"
    /\ run' = [pc |-> "extracted", patient_state |-> ps, files |-> {}]
    /\ UNCHANGED notRunVars
RunExtractionFails ==
    /\ run.pc = "idle"
    /\ run' = [pc |-> "raised", error |-> "extraction", files |-> {}]
    /\ UNCHANGED notRunVars

\* lines 64-100: the evidence rules, which abort the run after writing their
\* report, then the two summaries. The ICU summary is the deterministic one
\* unless the optional model call succeeds; it only feeds the quality gate.
RunEvidenceRules ==
    /\ run.pc = "extracted"
    /\ IF validate_patient_state_evidence(run.patient_state).ok
       THEN run' = [pc |-> "summarised", patient_state |-> run.patient_state,
                    legacy_summary |-> build_summary_candidates(run.patient_state),
                    files |-> {}]
       ELSE run' = [pc |-> "raised", error |-> "evidence rules",
                    files |-> {"patient_state_evidence_errors.json"}]
    /\ UNCHANGED notRunVars

\* lines 102-177: the differential call, the cleanups, the placeholder
\* against facts, the two verifications, the Persist block, and only then
\* the check of the two reports
RunDifferentialFails ==
    /\ run.pc = "summarised"
    /\ run' = [pc |-> "raised", error |-> "differential", files |-> {}]
    /\ UNCHANGED notRunVars
Verified(r, dx_out, sum_report, dx_report) ==
    [pc |-> IF sum_report.ok /\ dx_report.ok THEN "completed" ELSE "raised",
     error |-> IF sum_report.ok /\ dx_report.ok THEN "none" ELSE "verification failed",
     patient_state |-> r.patient_state, legacy_summary |-> r.legacy_summary,
     differential |-> dx_out, sum_report |-> sum_report, dx_report |-> dx_report,
     files |-> PersistedFiles]
RunDifferentialOf(r, dx_out) ==
    Verified(r, dx_out, validate_summary(r.legacy_summary, ValStore),
             validate_differential(dx_out, ValStore))
RunDifferential(dx_raw) ==
    /\ run.pc = "summarised"
    /\ run' = RunDifferentialOf(run, PopulateAgainst(run_all_cleanups(dx_raw)))
    /\ UNCHANGED notRunVars

RunDxOuts == {<<>>} \cup {<<d>> : d \in ValDxPool}
RunNext ==
    \/ \E ps \in ValPatientStates : RunExtraction(ps)
    \/ RunExtractionFails
    \/ RunEvidenceRules
    \/ RunDifferentialFails
    \/ \E dx_raw \in RunDxOuts : RunDifferential(dx_raw)

ReportFiles == {"final_output.json", "summary.json", "differential.json"}
\* C3: final_output.json, summary.json and differential.json are written
\* only in executions of run_llm.main in which both verification reports
\* are ok; a run whose verification reports an error aborts without them.
C3_ReportWrittenOnlyWhenVerified ==
    (run.pc # "idle" /\ run.files \cap ReportFiles # {}) =>
        (run.sum_report.ok /\ run.dx_report.ok)


\* ------------------------------------------------------------------------
\* pipeline/compose_report.py
\* ------------------------------------------------------------------------
EndsWith(s, p) == Len(s) >= Len(p) /\ SubSeq(s, Len(s) - Len(p) + 1, Len(s)) = p
ClarifyingQuestion(question, rationale, eids, priority) ==
    [question |-> question, rationale |-> rationale, evidence_ids |-> eids,
     priority |-> priority]
\* related_eids: the first evidence id of each of the first two supports,
\* or else the first of the evidence ids of the snippets
RelatedIds(dx, evidence_ids) ==
    IF Flatten([j \in 1..Min(2, Len(dx.support)) |-> PyPrefix(dx.support[j].evidence_ids, 1)])
           = <<>>
    THEN PyPrefix(evidence_ids, 1)
    ELSE Flatten([j \in 1..Min(2, Len(dx.support)) |-> PyPrefix(dx.support[j].evidence_ids, 1)])
DxQuestions(dx, evidence_ids) ==
    [k \in 1..Min(2, Len(dx.missing)) |->
        ClarifyingQuestion(
            IF EndsWith(dx.missing[k], <<"?">>) THEN dx.missing[k] ELSE dx.missing[k] \o <<"?">>,
            <<"N","e","e","d","e","d"," ","t","o"," ","c","o","n","f","i","r","m"," ","o","r"," ","r","u","l","e"," ","o","u","t"," ">> \o dx.diagnosis,
            RelatedIds(dx, evidence_ids),
            IF dx.confidence # "high" THEN "high" ELSE "medium")]
generate_deterministic_questions(differential, evidence_ids) ==
    PyPrefix(Flatten([i \in 1..Len(differential) |-> DxQuestions(differential[i], evidence_ids)]),
             5)

\* list(set(eids))[:3]: the order of a set of strings is not fixed, so any
\* three of the ids when there are more
SupportIds(dx) == UNION {Range(dx.support[j].evidence_ids) : j \in 1..Len(dx.support)}
UpToThree(ids) ==
    IF Cardinality(ids) <= 3 THEN {ids} ELSE {T \in SUBSET ids : Cardinality(T) = 3}
ActionItem(item, ids) == [item |-> item, evidence_ids |-> ids, priority |-> "high"]
FirstWith(differential, words) ==
    SelectSeq(differential, LAMBDA dx : \E w \in words : Contains(Lower(dx.diagnosis), w))
\* the action of the first matching diagnosis, for each way of listing the set
ActionsFor(matching, item) ==
    IF matching = <<>> THEN {<<>>}
    ELSE {<<ActionItem(item, ids)>> : ids \in UpToThree(SupportIds(matching[1]))}
\* the lists generate_deterministic_actions may return
generate_deterministic_actions(differential) ==
    {PyPrefix(a \o b, 3) :
        a \in ActionsFor(FirstWith(differential, {<<"c","o","a","g","u","l">>, <<"d","i","c">>}), "review coagulation panel"),
        b \in ActionsFor(FirstWith(differential, {<<"s","e","p","s","i","s">>}), "review blood cultures")}

\* What the model answers to the compose prompt. A question or an action of
\* the answer is a valid item or one that fails validation.
LlmQuestion == ClarifyingQuestion(<<"A","n","y"," ","f","e","v","e","r","?">>, <<"r">>, <<IdN1>>, "high")
LlmAction == ActionItem("llm action", {IdN1})
Invalid == [invalid |-> TRUE]
LlmQuestionLists ==
    {<<>>, <<LlmQuestion>>, <<LlmQuestion, LlmQuestion, LlmQuestion>>, <<Invalid>>}
LlmActionLists == {<<>>, <<LlmAction>>, <<Invalid>>}
ComposeAnswers ==
    {[kind |-> "raises"], [kind |-> "empty"], [kind |-> "{}"], [kind |-> "unparseable"],
     [kind |-> "not a dict"]}
    \cup {[kind |-> "dict", clarifying_questions |-> qs, action_items |-> as] :
             qs \in LlmQuestionLists, as \in LlmActionLists}

\* the questions of the try block: the model's, then the deterministic ones
\* whose text the model did not give, up to five in all
RECURSIVE AddQuestions(_, _, _)
AddQuestions(questions, det, existing) ==
    IF det = <<>> THEN questions
    ELSE IF Lower(Head(det).question) \in existing
         THEN AddQuestions(questions, Tail(det), existing)
         ELSE IF Len(questions) + 1 >= 5 THEN Append(questions, Head(det))
              ELSE AddQuestions(Append(questions, Head(det)), Tail(det), existing)
QuestionsOf(answer, det) ==
    IF Len(answer.clarifying_questions) < 3
    THEN AddQuestions(answer.clarifying_questions, det,
                      {Lower(q.question) : q \in Range(answer.clarifying_questions)})
    ELSE answer.clarifying_questions
HasInvalid(items) == \E i \in 1..Len(items) : items[i] = Invalid
\* composed is None, or the try block raised
FallsBack(answer) ==
    \/ answer.kind \in {"empty", "{}", "unparseable", "not a dict"}
    \/ answer.kind = "dict" /\ (HasInvalid(answer.clarifying_questions)
                                \/ HasInvalid(answer.action_items))
ConjoinedReport(questions, actions, limitations) ==
    [clarifying_questions |-> questions, action_items |-> actions, limitations |-> limitations]

ComposeDxOuts == {<<>>} \cup {<<d>> : d \in GateDxPool}
                 \cup {<<Dx(<<"S","e","p","s","i","s"," ","w","i","t","h"," ","D","I","C">>, <<FactKasai>>, <<>>, <<<<"C","u","l","t","u","r","e","s","?">>>>, "high")>>}
SnippetIds == {<<>>, <<IdN1>>, <<IdL1, IdN2>>}

\* main up to the compose call: the run directory is read, the snippets
\* retrieved and the summary formatted (by the model or, inside its
\* try/except, directly)
ComposeLoad(dx, evidence_ids) ==
    /\ compose.pc = "idle"
    /\ compose' = [pc |-> "composing", differential |-> dx, evidence_ids |-> evidence_ids]
    /\ UNCHANGED notComposeVars

\* llm.generate of compose_report_with_llm raises: nothing catches it
ComposeRaises ==
    /\ compose.pc = "composing"
    /\ compose' = [compose EXCEPT !.pc = "raised"] @@ [answer |-> [kind |-> "raises"]]
    /\ UNCHANGED notComposeVars

\* the answer is None or makes the try block raise: the deterministic report
ComposeFallback(answer) ==
    /\ compose.pc = "composing"
    /\ FallsBack(answer)
    /\ \E actions \in generate_deterministic_actions(compose.differential) :
          compose' = [compose EXCEPT !.pc = "written"]
                     @@ [answer |-> answer,
                         report |-> ConjoinedReport(
                             generate_deterministic_questions(compose.differential,
                                                              compose.evidence_ids),
                             actions, <<"deterministic">>)]
    /\ UNCHANGED notComposeVars

\* the answer is a dict of valid items: its questions and actions, filled
\* up with deterministic ones
ComposeFromAnswer(answer) ==
    /\ compose.pc = "composing"
    /\ answer.kind = "dict" /\ ~FallsBack(answer)
    /\ \E actions \in (IF Len(answer.action_items) < 1
                       THEN generate_deterministic_actions(compose.differential)
                       ELSE {answer.action_items}) :
          compose' = [compose EXCEPT !.pc = "written"]
                     @@ [answer |-> answer,
                         report |-> ConjoinedReport(
                             QuestionsOf(answer,
                                 generate_deterministic_questions(compose.differential,
                                                                  compose.evidence_ids)),
                             actions, <<>>)]
    /\ UNCHANGED notComposeVars

ComposeNext ==
    \/ \E dx \in ComposeDxOuts, evidence_ids \in SnippetIds : ComposeLoad(dx, evidence_ids)
    \/ ComposeRaises
    \/ \E answer \in ComposeAnswers : ComposeFallback(answer)
    \/ \E answer \in ComposeAnswers : ComposeFromAnswer(answer)

\* the composition step failed: the call raised, or answered nothing usable
CompositionFailed(answer) ==
    \/ answer.kind \in {"raises", "empty", "{}", "unparseable", "not a dict"}
    \/ answer.kind = "dict" /\ (HasInvalid(answer.clarifying_questions)
                                \/ answer.clarifying_questions = <<>>)
                            /\ (HasInvalid(answer.action_items) \/ answer.action_items = <<>>)
\* C15: whenever the LLM composition step fails (the call raises, returns
\* empty text or "{}", unparseable JSON, or JSON without usable questions and
\* actions), compose_report.main still writes a ConjoinedReport whose
\* clarifying questions and action items are the deterministic ones.
C15_ReportProducedDespiteLlmFailure ==
    (compose.pc \in {"raised", "written"} /\ CompositionFailed(compose.answer)) =>
        /\ compose.pc = "written"
        /\ compose.report.clarifying_questions =
              generate_deterministic_questions(compose.differential, compose.evidence_ids)
        /\ compose.report.action_items \in generate_deterministic_actions(compose.differential)


\* ------------------------------------------------------------------------
\* chunk_text as process_csv_row calls it: notes with no overlap, full
\* notes with an overlap of 50
\* ------------------------------------------------------------------------
\* a text of n letters with paragraph breaks, newlines and sentence ends at
\* the given offsets
BreakText(n, paragraphs, newlines, sentences) ==
    [i \in 1..n |->
        IF (i - 1) \in paragraphs \/ (i - 2) \in paragraphs \/ (i - 1) \in newlines THEN "\n"
        ELSE IF (i - 1) \in sentences THEN "."
        ELSE IF (i - 2) \in sentences THEN " "
        ELSE "a"]
ChunkLengths == {0, 30, 49, 50, 51, 120, 130, 499, 500, 501, 520, 549, 560, 700, 1001}
BreakLayout(paragraphs, newlines, sentences) ==
    [paragraphs |-> paragraphs, newlines |-> newlines, sentences |-> sentences]
BreakLayouts ==
    {BreakLayout({}, {}, {}),
     BreakLayout({60}, {}, {}),
     BreakLayout({60}, {120}, {}),
     BreakLayout({60}, {120}, {180}),
     BreakLayout({}, {300}, {}),
     BreakLayout({}, {}, {96, 193, 290, 387, 484, 581, 678}),
     BreakLayout({}, {}, {10, 510})}
ChunkTexts ==
    {BreakText(n, b.paragraphs, b.newlines, b.sentences) : n \in ChunkLengths, b \in BreakLayouts}
ChunkOverlaps == {NoteOverlap, FullNoteOverlap}

ChunkTextCall(text, overlap) ==
    /\ ~fn_call.called
    /\ fn_call' = [called |-> TRUE, fn |-> "chunk_text", text |-> text, overlap |-> overlap]
    /\ fn_out' = chunk_text(text, ChunkSize, overlap, MinChunkSize)
    /\ UNCHANGED notFnVars
ChunkNext == \E text \in ChunkTexts, overlap \in ChunkOverlaps : ChunkTextCall(text, overlap)

\* C16: the [char_start, char_end) spans of the chunks chunk_text returns
\* cover the text: every character offset lies inside some chunk.
C16_ChunksCoverTheText ==
    (fn_call.called /\ fn_call.fn = "chunk_text") =>
        \A p \in 0..(Len(fn_call.text) - 1) :
            \E i \in 1..Len(fn_out) : fn_out[i].char_start <= p /\ p < fn_out[i].char_end

\* ceil(a / b) for b > 0
CeilDiv(a, b) == IF a <= 0 THEN 0 - ((0 - a) \div b) ELSE (a + b - 1) \div b
AbsDiff(a, b) == IF a >= b THEN a - b ELSE b - a
\* C17: for a text of length L chunked with window W = 500 and overlap O = 0
\* or 50, the number of chunks differs from ceil((L - O) / (W - O)) by at
\* most 1.
C17_ChunkCountNearQuotient ==
    (fn_call.called /\ fn_call.fn = "chunk_text") =>
        AbsDiff(Len(fn_out),
                CeilDiv(Len(fn_call.text) - fn_call.overlap, ChunkSize - fn_call.overlap)) <= 1


\* ------------------------------------------------------------------------
\* parse_summary_json over JSON payloads of nested dicts and lists
\* ------------------------------------------------------------------------
RECURSIVE JoinWith(_, _)
JoinWith(parts, sep) ==
    IF parts = <<>> THEN <<>>
    ELSE IF Len(parts) = 1 THEN parts[1]
    ELSE parts[1] \o sep \o JoinWith(Tail(parts), sep)
\* the JSON text of a value, as json.loads reads it back
RECURSIVE JsonText(_)
JsonText(j) ==
    CASE j.t = "str" -> <<"\"">> \o j.s \o <<"\"">>
      [] j.t = "int" -> j.s
      [] j.t = "bool" -> IF j.truthy THEN <<"t","r","u","e">> ELSE <<"f","a","l","s","e">>
      [] j.t = "null" -> <<"n","u","l","l">>
      [] j.t = "list" ->
            <<"[">> \o JoinWith([i \in 1..Len(j.items) |-> JsonText(j.items[i])], <<","," ">>)
            \o <<"]">>
      [] j.t = "dict" ->
            <<"{">> \o JoinWith([i \in 1..Len(j.items) |->
                                    <<"\"">> \o j.items[i].k \o <<"\"",":"," ">> \o JsonText(j.items[i].v)],
                                <<","," ">>)
            \o <<"}">>
Payload(j) == [raw |-> JsonText(j), valid |-> TRUE, json |-> j]

JsonLeaves == {JStr(<<"f","l","u">>), JStr(<<>>), JInt(0), JInt(5), JBool(TRUE), JBool(FALSE), JNull}
KeyA == <<"a">>
KeyB == <<"b">>
JsonShallow ==
    JsonLeaves \cup {JList(<<l>>) : l \in JsonLeaves} \cup {JDict(<<KV(KeyB, l)>>) : l \in JsonLeaves}
JsonValues ==
    JsonLeaves \cup {JDict(<<>>), JList(<<>>)}
    \cup {JDict(<<KV(KeyA, x)>>) : x \in JsonShallow}
    \cup {JList(<<x>>) : x \in JsonShallow}
    \cup {JDict(<<KV(KeyA, l), KV(KeyB, m)>>) : l \in JsonLeaves, m \in JsonLeaves}
SummaryPayloads ==
    {Payload(j) : j \in JsonValues}
    \cup {[raw |-> TxtNotJson, valid |-> FALSE, json |-> JNull],
          [raw |-> <<" ">>, valid |-> FALSE, json |-> JNull]}

ParseSummaryJsonCall(json_str, row_id) ==
    /\ ~fn_call.called
    /\ fn_call' = [called |-> TRUE, fn |-> "parse_summary_json", json_str |-> json_str,
                   row_id |-> row_id]
    /\ fn_out' = parse_summary_json(json_str, row_id)
    /\ UNCHANGED notFnVars
SummaryJsonNext ==
    \E json_str \in SummaryPayloads, row_id \in {0, 7} : ParseSummaryJsonCall(json_str, row_id)

\* the scalar leaves of a JSON value, each with its dotted/bracketed path
RECURSIVE LeafFacts(_, _)
LeafFacts(j, path) ==
    CASE j.t \in {"str", "int", "float", "bool"} -> <<SummaryFact(path, j.s)>>
      [] j.t = "dict" ->
            Flatten([i \in 1..Len(j.items) |->
                LeafFacts(j.items[i].v,
                          IF path = <<>> THEN j.items[i].k ELSE path \o <<".">> \o j.items[i].k)])
      [] j.t = "list" ->
            Flatten([i \in 1..Len(j.items) |->
                LeafFacts(j.items[i], path \o <<"[">> \o IntToStr(i - 1) \o <<"]">>)])
      [] OTHER -> <<>>

\* C18: for every valid JSON payload parse_summary_json emits exactly one
\* CS record per leaf scalar (string, number or boolean at any depth,
\* whatever its value), in order, each under the path of its leaf.
C18_OneRecordPerLeafScalar ==
    (fn_call.called /\ fn_call.fn = "parse_summary_json" /\ fn_call.json_str.valid) =>
        [k \in 1..Len(fn_out) |-> fn_out[k].raw_text]
            = [k \in 1..Len(LeafFacts(fn_call.json_str.json, <<>>)) |->
                  LeafFacts(fn_call.json_str.json, <<>>)[k].key \o <<":"," ">>
                  \o LeafFacts(fn_call.json_str.json, <<>>)[k].value]


\* ------------------------------------------------------------------------
\* parse_conversation over texts made of labels, words and line breaks
\* ------------------------------------------------------------------------
MaxTokens == 3
LongLine == [i \in 1..(MinLineTurn + 1) |-> "a"]
ConversationTokens == {<<"P",":">>, <<"D","r",":">>, <<"o","k">>, <<" ">>, <<"\n">>, LongLine}
RECURSIVE TokenTexts(_)
TokenTexts(n) ==
    IF n = 0 THEN {<<>>}
    ELSE TokenTexts(n - 1)
         \cup {t \o w : t \in TokenTexts(n - 1), w \in ConversationTokens}
ConversationTexts == TokenTexts(MaxTokens)

ParseConversationCall(text) ==
    /\ ~fn_call.called
    /\ fn_call' = [called |-> TRUE, fn |-> "parse_conversation", text |-> text]
    /\ fn_out' = parse_conversation(text)
    /\ UNCHANGED notFnVars
ConversationNext == \E text \in ConversationTexts : ParseConversationCall(text)

\* the indices where a speaker label starts, scanning left to right
RECURSIVE LabelStartsFrom(_, _)
LabelStartsFrom(text, from) ==
    LET hits == {i \in from..Len(text) : PatternAt(text, i).group # 0}
        i    == CHOOSE i \in hits : \A j \in hits : i <= j
    IN  IF hits = {} THEN <<>>
        ELSE <<i>> \o LabelStartsFrom(text, PatternAt(text, i).last + 1)
LongLines(text) ==
    SelectSeq([k \in 1..Len(SplitOn(text, "\n")) |-> Strip(SplitOn(text, "\n")[k])],
              LAMBDA line : Len(line) > MinLineTurn)
\* the turns the text is made of: the text before the first label, then
\* each label with the text up to the next one; without labels the long
\* lines, or else the whole text
TurnsByLabel(text, starts) ==
    IF starts # <<>>
    THEN (IF Strip(SubSeq(text, 1, starts[1] - 1)) # <<>>
          THEN <<Strip(SubSeq(text, 1, starts[1] - 1))>> ELSE <<>>)
         \o [k \in 1..Len(starts) |->
                Strip(SubSeq(text, starts[k],
                             IF k < Len(starts) THEN starts[k + 1] - 1 ELSE Len(text)))]
    ELSE IF LongLines(text) # <<>> THEN LongLines(text) ELSE <<text>>

\* C19: for a non-empty text with speaker labels parse_conversation returns
\* one turn per label occurrence (plus one for non-empty text before the
\* first label), in order, each the label followed by the text up to the
\* next label; without labels one turn per line longer than 20 characters,
\* or the whole text as a single turn.
C19_OneTurnPerSpeakerLabel ==
    (fn_call.called /\ fn_call.fn = "parse_conversation" /\ fn_call.text # <<>>) =>
        [k \in 1..Len(fn_out) |-> fn_out[k].text]
            = TurnsByLabel(fn_call.text, LabelStartsFrom(fn_call.text, 1))


\* ------------------------------------------------------------------------
\* rag/index_build.py: build_and_save_indices rewriting an index directory
\* while rag/retrieve.py: HybridRetriever.__init__ loads it
\*
\* An artifact is named by the build that produced it: 0 is an absent file,
\* n the file written by the n-th run of build_and_save_indices.
\* ------------------------------------------------------------------------
MaxGenerations == 2
Artifacts == [doc_ids |-> 0, bm25 |-> 0, faiss |-> 0, store |-> 0]
RebuildInit ==
    rb = [disk |-> Artifacts, gen |-> 0, builder |-> "idle",
          reader |-> "idle", loaded |-> Artifacts]

\* lines 79-97: the corpus and both indices are computed in memory
BuildInMemory ==
    /\ rb.builder = "idle"
    /\ rb.gen < MaxGenerations
    /\ rb' = [rb EXCEPT !.gen = @ + 1, !.builder = "write_doc_ids"]
    /\ UNCHANGED notRebuildVars
\* line 100
WriteDocIds ==
    /\ rb.builder = "write_doc_ids"
    /\ rb' = [rb EXCEPT !.disk.doc_ids = rb.gen, !.builder = "write_bm25"]
    /\ UNCHANGED notRebuildVars
\* lines 102-103
WriteBm25 ==
    /\ rb.builder = "write_bm25"
    /\ rb' = [rb EXCEPT !.disk.bm25 = rb.gen, !.builder = "write_faiss"]
    /\ UNCHANGED notRebuildVars
\* line 105
WriteFaiss ==
    /\ rb.builder = "write_faiss"
    /\ rb' = [rb EXCEPT !.disk.faiss = rb.gen, !.builder = "write_store"]
    /\ UNCHANGED notRebuildVars
\* lines 107-108
WriteStore ==
    /\ rb.builder = "write_store"
    /\ rb' = [rb EXCEPT !.disk.store = rb.gen, !.builder = "idle"]
    /\ UNCHANGED notRebuildVars
\* the run is interrupted (killed, or an exception in a write) before it
\* returns: the files written so far stay
InterruptBuild ==
    /\ rb.builder # "idle"
    /\ rb' = [rb EXCEPT !.builder = "idle"]
    /\ UNCHANGED notRebuildVars

\* HybridRetriever.__init__, one read per step in the order of the code;
\* reading an absent file raises and no retriever is constructed
AfterRead(rbv, file, to) ==
    [rbv EXCEPT !.loaded[file] = rbv.disk[file],
                !.reader = IF rbv.disk[file] = 0 THEN "raised" ELSE to]
\* line 31; a new retriever may be constructed whenever none is being
ReadDocIds ==
    /\ rb.reader \in {"idle", "raised", "loaded"}
    /\ rb' = [rb EXCEPT !.loaded = [Artifacts EXCEPT !.doc_ids = rb.disk.doc_ids],
                        !.reader = IF rb.disk.doc_ids = 0 THEN "raised" ELSE "read_bm25"]
    /\ UNCHANGED notRebuildVars
\* lines 33-34
ReadBm25 ==
    /\ rb.reader = "read_bm25"
    /\ rb' = AfterRead(rb, "bm25", "read_store")
    /\ UNCHANGED notRebuildVars
\* line 36
ReadStore ==
    /\ rb.reader = "read_store"
    /\ rb' = AfterRead(rb, "store", "read_faiss")
    /\ UNCHANGED notRebuildVars
\* line 40
ReadFaiss ==
    /\ rb.reader = "read_faiss"
    /\ rb' = AfterRead(rb, "faiss", "loaded")
    /\ UNCHANGED notRebuildVars
RebuildNext ==
    \/ BuildInMemory
    \/ WriteDocIds
    \/ WriteBm25
    \/ WriteFaiss
    \/ WriteStore
    \/ InterruptBuild
    \/ ReadDocIds
    \/ ReadBm25
    \/ ReadStore
    \/ ReadFaiss

\* C20: a constructed HybridRetriever holds doc_ids, the lexical index, the
\* vector index and the evidence store of one and the same build.
C20_RetrieverHoldsOneGeneration ==
    rb.reader = "loaded" =>
        /\ rb.loaded.bm25 = rb.loaded.doc_ids
        /\ rb.loaded.faiss = rb.loaded.doc_ids
        /\ rb.loaded.store = rb.loaded.doc_ids


\* ------------------------------------------------------------------------
\* Search hits and the evidence store
\* ------------------------------------------------------------------------
\* C21: on indices built over a non-empty corpus hybrid_search returns at
\* least one result, and every evidence_id it returns is a key of the loaded
\* store whose record holds raw_text.
C21_SearchHitsAreInStore ==
    (hs_call.called /\ retriever.loaded /\ Len(retriever.doc_ids) > 0) =>
        /\ Len(hs_out) >= 1
        /\ \A j \in 1..Len(hs_out) :
              /\ hs_out[j].evidence_id \in DOMAIN retriever.store
              /\ "raw_text" \in DOMAIN retriever.store[hs_out[j].evidence_id]
\* a query no document matches lexically, answered from the neighbours, on
\* indices whose doc_ids repeat an id
C21_Witness ==
    /\ hs_call.called /\ retriever.loaded
    /\ ~DistinctSeq(retriever.doc_ids)
    /\ \A i \in 1..Len(retriever.doc_ids) : hs_call.q.bm[i] = 0
    /\ Len(hs_out) >= 1
    /\ hs_out[1].evidence_id \in DOMAIN retriever.store


\* ------------------------------------------------------------------------
\* generate_report.py: run_batch_pipeline
\*
\* One step per pass of the for loop. pipeline.run either raises or returns
\* a report; saving the report (mkdir, write_text, format_text_output) can
\* raise as well, inside the same try block.
\* ------------------------------------------------------------------------
MaxCases == 3
BatchRowIds == SeqsUpTo({5, 7}, MaxCases)
BatchInit ==
    batch = [pc |-> "idle", row_ids |-> <<>>, i |-> 0, attempted |-> <<>>,
             all_reports |-> <<>>, completed |-> <<>>, failed |-> <<>>,
             summary |-> [written |-> FALSE, total |-> 0]]
\* lines 65-81
BatchStart ==
    /\ batch.pc = "idle"
    /\ \E row_ids \in BatchRowIds :
          batch' = [batch EXCEPT !.pc = "loop", !.row_ids = row_ids]
    /\ UNCHANGED notBatchVars
BatchLooping == batch.pc = "loop" /\ batch.i < Len(batch.row_ids)
NextRow == batch.row_ids[batch.i + 1]
\* line 90 raises: lines 108-110
CaseRaises ==
    /\ BatchLooping
    /\ batch' = [batch EXCEPT !.i = @ + 1, !.attempted = Append(@, NextRow),
                              !.failed = Append(@, NextRow)]
    /\ UNCHANGED notBatchVars
\* lines 90-91 pass, one of lines 94-102 raises: lines 108-110
CaseSaveRaises ==
    /\ BatchLooping
    /\ batch' = [batch EXCEPT !.i = @ + 1, !.attempted = Append(@, NextRow),
                              !.all_reports = Append(@, NextRow),
                              !.failed = Append(@, NextRow)]
    /\ UNCHANGED notBatchVars
\* lines 90-106
CaseCompletes ==
    /\ BatchLooping
    /\ batch' = [batch EXCEPT !.i = @ + 1, !.attempted = Append(@, NextRow),
                              !.all_reports = Append(@, NextRow),
                              !.completed = Append(@, NextRow)]
    /\ UNCHANGED notBatchVars
\* lines 112-136; total_time/len(row_ids) raises ZeroDivisionError for no rows
BatchSummary ==
    /\ batch.pc = "loop" /\ batch.i = Len(batch.row_ids)
    /\ batch' = IF Len(batch.row_ids) = 0
                THEN [batch EXCEPT !.pc = "raised"]
                ELSE [batch EXCEPT !.pc = "done",
                                   !.summary = [written |-> TRUE,
                                                total |-> Len(batch.all_reports)]]
    /\ UNCHANGED notBatchVars
BatchNext ==
    \/ BatchStart
    \/ CaseRaises
    \/ CaseSaveRaises
    \/ CaseCompletes
    \/ BatchSummary

\* C22: the batch attempts every row id once, in the given order, whatever
\* fails on the way, and ends with a summary that counts exactly the cases
\* that completed.
C22_BatchAttemptsAllAndCountsCompleted ==
    /\ batch.attempted = SubSeq(batch.row_ids, 1, batch.i)
    /\ batch.pc \in {"done", "raised"} =>
          /\ batch.attempted = batch.row_ids
          /\ batch.summary.written
          /\ batch.summary.total = Len(batch.completed)


\* ------------------------------------------------------------------------
\* pipeline/run_case.py: CasePipeline.run
\*
\* One step per numbered stage of run. The language model either fails
\* (generate raises, or its answer does not parse) or answers with a
\* differential of the schema, whatever evidence ids it cites.
\* ------------------------------------------------------------------------
CaseInit ==
    case_run = [pc |-> "idle", row_id |-> 0, row_data |-> FALSE, has_index |-> FALSE,
                stages |-> <<>>, differential |-> <<>>, report |-> <<>>]
CaseDxPool ==
    {Dx(TxtA, <<Fact(TxtA, TxtB, <<IdN1>>)>>, <<>>, <<>>, "high"),
     Dx(TxtA, <<Fact(TxtA, TxtB, <<IdUnknown>>)>>, <<>>, <<>>, "high"),
     Dx(TxtB, <<Fact(TxtA, TxtB, <<>>)>>, <<>>, <<>>, "low")}
MaxCaseDx == 2
CaseDifferentials == SeqsUpTo(CaseDxPool, MaxCaseDx)
\* line 326 and __init__ (lines 105-118): whether the CSV holds the row and
\* whether an index exists
CaseStart ==
    /\ case_run.pc = "idle"
    /\ \E row_id \in {5, 7}, row_data \in BOOLEAN, has_index \in BOOLEAN :
          case_run' = [case_run EXCEPT !.pc = "start", !.row_id = row_id,
                                       !.row_data = row_data, !.has_index = has_index]
    /\ UNCHANGED notCaseVars
\* line 330, build_soap_context (lines 125-142)
CaseBuildSoapContext ==
    /\ case_run.pc = "start"
    /\ case_run' = IF case_run.row_data \/ case_run.has_index
                   THEN [case_run EXCEPT !.pc = "soap_context",
                                         !.stages = Append(@, "soap_context")]
                   ELSE [case_run EXCEPT !.pc = "raised"]
    /\ UNCHANGED notCaseVars
\* line 335, retrieve_evidence_packs (lines 195-215)
CaseRetrievePacks ==
    /\ case_run.pc = "soap_context"
    /\ case_run' = [case_run EXCEPT !.pc = "retrieval", !.stages = Append(@, "retrieval")]
    /\ UNCHANGED notCaseVars
\* line 339, generate_soap_summary
CaseGenerateSummary ==
    /\ case_run.pc = "retrieval"
    /\ case_run' = [case_run EXCEPT !.pc = "summary", !.stages = Append(@, "generation")]
    /\ UNCHANGED notCaseVars
\* line 343, generate_differential (lines 254-279)
CaseGenerateDifferential ==
    /\ case_run.pc = "summary"
    /\ \E dx \in CaseDifferentials :
          case_run' = [case_run EXCEPT !.pc = "differential", !.differential = dx,
                                       !.stages = Append(@, "generation")]
    /\ UNCHANGED notCaseVars
\* llm.generate or parse_with_schema raises in line 339 or 343
CaseGenerationRaises ==
    /\ case_run.pc \in {"retrieval", "summary"}
    /\ case_run' = [case_run EXCEPT !.pc = "raised"]
    /\ UNCHANGED notCaseVars
\* lines 348-366
CaseReturnReport ==
    /\ case_run.pc = "differential"
    /\ case_run' = [case_run EXCEPT !.pc = "returned",
                       !.report = <<[row_id |-> case_run.row_id,
                                     differential |-> case_run.differential]>>]
    /\ UNCHANGED notCaseVars
CaseNext ==
    \/ CaseStart
    \/ CaseBuildSoapContext
    \/ CaseRetrievePacks
    \/ CaseGenerateSummary
    \/ CaseGenerateDifferential
    \/ CaseGenerationRaises
    \/ CaseReturnReport

StageRank(stage) ==
    CASE stage = "soap_context" -> 1
      [] stage = "retrieval" -> 2
      [] stage = "generation" -> 3
      [] stage = "validation" -> 4
\* C23: the stages of CasePipeline.run occur in the order SOAP context,
\* retrieval, generation, validation, and a CaseReport is only returned
\* after the generated differential has been validated.
C23_ValidatedBeforeReturn ==
    /\ \A j, k \in 1..Len(case_run.stages) :
          j < k => StageRank(case_run.stages[j]) <= StageRank(case_run.stages[k])
    /\ case_run.pc = "returned" =>
          \E k \in 1..Len(case_run.stages) : case_run.stages[k] = "validation"


\* ------------------------------------------------------------------------
\* The global SOAP context: rag/soap_retrieval.py build_global_soap and
\* pipeline/run_case.py CasePipeline._build_soap_from_row_data
\* ------------------------------------------------------------------------
SOAPFact(label, value, eids) == [label |-> label, value |-> value, evidence_ids |-> eids]
SOAPContext(row_id) == [S |-> <<>>, O |-> <<>>, A |-> <<>>, P |-> <<>>, row_id |-> row_id]
AnyKeyword(text, kws) == \E kw \in kws : Contains(text, kw)
\* the keyword lists of build_global_soap, lines 306-312
GlobalKeywords ==
    [S |-> {<<"c","o","m","p","l","a","i","n","t">>, <<"s","y","m","p","t","o","m">>, <<"h","i","s","t","o","r","y">>, <<"p","a","i","n">>, <<"d","u","r","a","t","i","o","n">>, <<"p","a","t","i","e","n","t"," ","r","e","p","o","r","t","s">>},
     O |-> {<<"l","a","b">>, <<"v","i","t","a","l">>, <<"e","x","a","m">>, <<"f","i","n","d","i","n","g">>, <<"l","e","v","e","l">>, <<"m","g">>, <<"m","m","o","l">>, <<"b","p","m">>},
     A |-> {<<"d","i","a","g","n","o","s","i","s">>, <<"p","r","o","b","l","e","m">>, <<"c","o","n","d","i","t","i","o","n">>, <<"i","m","p","r","e","s","s","i","o","n">>, <<"a","s","s","e","s","s","m","e","n","t">>},
     P |-> {<<"p","l","a","n">>, <<"r","e","c","o","m","m","e","n","d">>, <<"o","r","d","e","r">>, <<"f","o","l","l","o","w">>, <<"t","r","e","a","t","m","e","n","t">>, <<"p","r","e","s","c","r","i","b","e">>}]
GlobalSection(text) ==
    IF AnyKeyword(text, GlobalKeywords.S) THEN "S"
    ELSE IF AnyKeyword(text, GlobalKeywords.O) THEN "O"
    ELSE IF AnyKeyword(text, GlobalKeywords.A) THEN "A"
    ELSE IF AnyKeyword(text, GlobalKeywords.P) THEN "P"
    ELSE "O"
\* text.split(":", 1)
BeforeColon(text) == SplitOn(text, ":")[1]
AfterColon(text) == SubSeq(text, Len(BeforeColon(text)) + 2, Len(text))
\* lines 295-303
GlobalFact(ev) ==
    IF Contains(ev.text, <<":">>)
    THEN SOAPFact(Strip(BeforeColon(ev.text)), Strip(AfterColon(ev.text)), <<ev.evidence_id>>)
    ELSE SOAPFact(<<"f","a","c","t">>, ev.text, <<ev.evidence_id>>)
\* the loop of lines 290-316
RECURSIVE GlobalSoapLoop(_, _)
GlobalSoapLoop(summary_evidence, ctx) ==
    IF summary_evidence = <<>> THEN ctx
    ELSE GlobalSoapLoop(Tail(summary_evidence),
                        [ctx EXCEPT ![GlobalSection(Lower(Head(summary_evidence).text))] =
                                        Append(@, GlobalFact(Head(summary_evidence)))])
\* build_global_soap(row_id, summary_evidence), the evidence handed in or
\* retrieved by lines 282-287
build_global_soap(row_id, summary_evidence) ==
    GlobalSoapLoop(summary_evidence, SOAPContext(row_id))

MAX_EVIDENCE_S == 10
MAX_EVIDENCE_O == 10
MAX_EVIDENCE_A == 5
MAX_EVIDENCE_P == 5
\* lines 157-165
RowFact(rec) ==
    IF Contains(rec.raw_text, <<":">>) /\ Len(SplitOn(rec.raw_text, ":")) = 2
    THEN SOAPFact(Strip(BeforeColon(rec.raw_text)), Strip(AfterColon(rec.raw_text)),
                  <<rec.evidence_id>>)
    ELSE SOAPFact(rec.evidence_type, PyPrefix(rec.raw_text, 200), <<rec.evidence_id>>)
\* lines 168-185: the section of a record, "" for a record of another type
RowSection(rec) ==
    LET text_lower == Lower(rec.raw_text)
    IN  IF rec.evidence_type = "csv_conv" THEN "S"
        ELSE IF rec.evidence_type = "csv_summary"
        THEN IF AnyKeyword(text_lower, {<<"d","i","a","g","n","o","s","i","s">>, <<"p","r","o","b","l","e","m">>, <<"i","m","p","r","e","s","s","i","o","n">>}) THEN "A"
             ELSE IF AnyKeyword(text_lower, {<<"p","l","a","n">>, <<"t","r","e","a","t","m","e","n","t">>, <<"r","e","c","o","m","m","e","n","d">>}) THEN "P"
             ELSE "O"
        ELSE IF rec.evidence_type \in {"csv_note", "csv_full_note"}
        THEN IF AnyKeyword(text_lower, {<<"c","o","m","p","l","a","i","n","t">>, <<"p","a","i","n">>, <<"s","y","m","p","t","o","m">>, <<"r","e","p","o","r","t","s">>})
             THEN "S" ELSE "O"
        ELSE ""
RECURSIVE RowSoapLoop(_, _)
RowSoapLoop(records, ctx) ==
    IF records = <<>> THEN ctx
    ELSE RowSoapLoop(Tail(records),
                     IF RowSection(Head(records)) = "" THEN ctx
                     ELSE [ctx EXCEPT ![RowSection(Head(records))] =
                                          Append(@, RowFact(Head(records)))])
\* lines 188-191
CapSections(ctx) ==
    [ctx EXCEPT !.S = PyPrefix(@, MAX_EVIDENCE_S), !.O = PyPrefix(@, MAX_EVIDENCE_O),
                !.A = PyPrefix(@, MAX_EVIDENCE_A), !.P = PyPrefix(@, MAX_EVIDENCE_P)]
\* _build_soap_from_row_data(row_data, row_id); line 148 is ingest_single_row
ingest_single_row(row_dict, idx) == process_csv_row(from_dict(row_dict, idx))
build_soap_from_row_data(row_data, row_id) ==
    CapSections(RowSoapLoop(ingest_single_row(row_data, row_id), SOAPContext(row_id)))

\* the inputs: summary facts of the four kinds, of two kinds at once and of
\* none, in a summary of up to MaxFacts keys
MaxFacts == 6
FactValues == {<<"c","o","u","g","h"," ","c","o","m","p","l","a","i","n","t">>, <<"f","l","u"," ","p","r","o","b","l","e","m">>, <<"r","e","s","t"," ","p","l","a","n">>, <<"1","2","0">>,
               <<"h","i","s","t","o","r","y"," ","o","f"," ","d","i","a","g","n","o","s","i","s">>, <<"l","a","b"," ","o","r","d","e","r">>}
FactKey(k) == <<"k">> \o NatToStr(k)
SummaryOf(n, value) == Payload(JDict([k \in 1..n |-> KV(FactKey(k), JStr(value))]))
SoapRows ==
    {Row(Absent, Absent, Absent, note, <<>>, <<>>, SummaryOf(n, value)) :
        note \in {<<>>, TxtPain}, n \in 1..MaxFacts, value \in FactValues}
SummaryEvidence(n, value) ==
    [k \in 1..n |-> [evidence_id |-> csv_id(<<"C", "S">>, 3, k - 1), score |-> Frac(1, 1),
                     text |-> FactKey(k) \o <<":", " ">> \o value]]
SummaryEvidenceLists == {SummaryEvidence(n, value) : n \in 0..MaxFacts, value \in FactValues}
\* the (evidence id, text) pairs of the summary facts a context is built of
FactsOfEvidence(evs) == {<<evs[k].evidence_id, evs[k].text>> : k \in 1..Len(evs)}
FactsOfRecords(recs) ==
    {<<recs[k].evidence_id, recs[k].raw_text>> :
        k \in {j \in 1..Len(recs) : recs[j].evidence_type = "csv_summary"}}

BuildGlobalSoapCall ==
    /\ ~fn_call.called
    /\ \E summary_evidence \in SummaryEvidenceLists :
          /\ fn_call' = [called |-> TRUE, fn |-> "build_global_soap",
                         facts |-> FactsOfEvidence(summary_evidence)]
          /\ fn_out' = build_global_soap(Some(3), summary_evidence)
    /\ UNCHANGED notFnVars
BuildSoapFromRowDataCall ==
    /\ ~fn_call.called
    /\ \E row_data \in SoapRows :
          /\ fn_call' = [called |-> TRUE, fn |-> "_build_soap_from_row_data",
                         facts |-> FactsOfRecords(ingest_single_row(row_data, 3))]
          /\ fn_out' = build_soap_from_row_data(row_data, 3)
    /\ UNCHANGED notFnVars
SoapNext ==
    \/ BuildGlobalSoapCall
    \/ BuildSoapFromRowDataCall

\* the sections of a context that hold a fact citing the evidence id
SectionsHolding(ctx, eid) ==
    {sec \in Sections : \E k \in 1..Len(ctx[sec]) : ctx[sec][k].evidence_ids = <<eid>>}
\* C24: on both paths every summary fact is placed in exactly one section,
\* the first of S, O, A, P one of whose keywords its text holds, and in
\* Objective when it holds none.
C24_SummaryFactsByPriority ==
    (fn_call.called /\ fn_call.fn \in {"build_global_soap", "_build_soap_from_row_data"}) =>
        \A f \in fn_call.facts :
            SectionsHolding(fn_out, f[1]) = {GlobalSection(Lower(f[2]))}


\* ------------------------------------------------------------------------
\* rag/retrieve.py: the order of equal fused scores in hybrid_search
\* ------------------------------------------------------------------------
\* the (doc index, score) items behind the results of the recorded call
RankedOfCall == Ranked(retriever, hs_call.q, EffectiveTopK(hs_call.top_k))

\* C25: when two candidate documents have equal fused scores, hybrid_search
\* ranks the one with the lower position in doc_ids first, whether each came
\* from the lexical ranking, the vector ranking or both.
C25_TiesFollowDocOrder ==
    hs_call.called =>
        \A i, j \in 1..Len(RankedOfCall) :
            (i < j /\ FracEQ(RankedOfCall[i].score, RankedOfCall[j].score))
                => RankedOfCall[i].doc_i < RankedOfCall[j].doc_i


\* ------------------------------------------------------------------------
\* llm/client.py under a configured SETTINGS: MAX_PROMPT_TOKENS and
\* CHARS_PER_TOKEN are read from the environment (config.py:22-24)
\* ------------------------------------------------------------------------
ConfiguredSettings ==
    { DefaultSettings,
      Settings(1000, 4, 1),
      Settings(20, 5, 2),
      Settings(10, 7, 2) }

\* sent is text[:k] followed by the truncation marker, for some k
IsPrefixWithMarker(sent, text) ==
    LET k == sent.len - MarkerLen
    IN  /\ k \in 0..text.len
        /\ sent = AppendMarker(SliceTo(text, k))

\* C26: whenever the estimated token count of the caller's prompt exceeds
\* the configured prompt budget, for any configured budget and
\* chars-per-token ratio, the prompt generate sends is a prefix of the
\* original prompt followed by the truncation marker, and its estimated
\* token count does not exceed the budget; a prompt within budget is sent
\* unchanged.
C26_SentPromptWithinBudget ==
    Len(gen_sent) >= 1 =>
        IF estimate_tokens(gen_arg) > settings.max_prompt_tokens
        THEN /\ IsPrefixWithMarker(gen_sent[1], gen_arg)
             /\ estimate_tokens(gen_sent[1]) <= settings.max_prompt_tokens
        ELSE gen_sent[1] = gen_arg


\* ------------------------------------------------------------------------
\* ingest/ingest_csv.py: process_csv_row over rows with a note, a full note
\* and a conversation
\* ------------------------------------------------------------------------
RowNotes == {<<>>, TxtPain, BreakText(520, {}, {}, {})}
RowFullNotes == {<<>>, LongNote}
\* a short line ending in a space, then a long line
TrailingSpaceLines == <<"o", "k", " ", "\n">> \o LongLine
RowConversations == ConversationTexts \cup {TrailingSpaceLines}
SpanRows ==
    {Row(IdInt(7), Absent, Absent, note, full_note, conversation, NoSummary) :
        note \in RowNotes, full_note \in RowFullNotes, conversation \in RowConversations}

\* CSVRow.from_dict(row_dict, idx), then process_csv_row(row)
ProcessCsvRowCall(row_dict) ==
    /\ ~fn_call.called
    /\ fn_call' = [called |-> TRUE, fn |-> "process_csv_row",
                   row |-> from_dict(row_dict, RowIdx(row_dict, 0))]
    /\ fn_out' = process_csv_row(from_dict(row_dict, RowIdx(row_dict, 0)))
    /\ UNCHANGED notFnVars
SpanNext == \E row_dict \in SpanRows : ProcessCsvRowCall(row_dict)

\* C27: for every record process_csv_row emits with a char span (note
\* chunks, full-note chunks and conversation turns), 0 <= char_start <=
\* char_end <= len(source field) and raw_text is the source field's text
\* between char_start and char_end with surrounding whitespace stripped.
C27_RecordsAreVerbatimSpans ==
    (fn_call.called /\ fn_call.fn = "process_csv_row") =>
        \A k \in 1..Len(fn_out) :
            fn_out[k].field # "summary_json" =>
                /\ 0 <= fn_out[k].char_start
                /\ fn_out[k].char_start <= fn_out[k].char_end
                /\ fn_out[k].char_end <= Len(fn_call.row[fn_out[k].field])
                /\ fn_out[k].raw_text =
                       Strip(PySlice(fn_call.row[fn_out[k].field],
                                     fn_out[k].char_start, fn_out[k].char_end))


\* ------------------------------------------------------------------------
\* The validators on patient-derived evidence ids
\* ------------------------------------------------------------------------
\* legacy narrative, lab and monitor ids, and the CS_/CN_/CF_/CV_ ids of
\* ingest_csv
LegacyPatientPrefixes == {<<"N">>, <<"L">>, <<"M">>}
IsPatientDerived(eid) ==
    \/ \E p \in LegacyPatientPrefixes : StartsWith(eid, p)
    \/ \E p \in CsvIdPrefixes : StartsWith(eid, p \o <<"_">>)
AllPatientInStore(eids) ==
    \A k \in 1..Len(eids) : IsPatientDerived(eids[k]) /\ exists(eids[k], ValStore)
\* an error about `text` that lists ids of eids which the store holds: the
\* non-patient evidence error (the unknown-ids error lists ids the store
\* lacks, the missing-ids error lists none)
HasProvenanceError(report, text, eids) ==
    \E i \in 1..Len(report.findings) :
        /\ report.findings[i].severity = "error"
        /\ report.findings[i].offending_text = text
        /\ report.findings[i].missing_evidence_ids # <<>>
        /\ \A k \in 1..Len(report.findings[i].missing_evidence_ids) :
              /\ exists(report.findings[i].missing_evidence_ids[k], ValStore)
              /\ \E m \in 1..Len(eids) : eids[m] = report.findings[i].missing_evidence_ids[k]
PsFacts(ps) ==
    Flatten([g \in 1..Len(PatientStateGroups) |-> ps[PatientStateGroups[g]]])

\* C28: a fact whose evidence ids are all patient-derived (legacy N/L/M ids
\* or CSV-derived CS_/CN_/CF_/CV_ ids) and all present in the store never
\* triggers the non-patient evidence error in validate_differential or
\* validate_patient_state_evidence.
C28_PatientIdsAreNotForbidden ==
    /\ val_call = "validate_differential" =>
          \A i \in 1..Len(val_input) :
              \A f \in Range(val_input[i].support \o val_input[i].against) :
                  AllPatientInStore(f.evidence_ids) =>
                      ~HasProvenanceError(val_report,
                                          val_input[i].diagnosis \o <<":", ":">> \o f.label,
                                          f.evidence_ids)
    /\ val_call = "validate_patient_state_evidence" =>
          \A f \in Range(PsFacts(val_input)) :
              AllPatientInStore(f.evidence_ids) =>
                  ~HasProvenanceError(val_report, f.label, f.evidence_ids)


\* ------------------------------------------------------------------------
\* ingest/ingest_csv.py: get_row_by_id against ingest_csv_file
\*
\* An input file is its type and its lines. A line of a JSONL file is
\* blank, malformed (json.loads raises) or a row; the lines of a CSV file
\* are the rows csv.DictReader yields, whose cells are strings.
\* ------------------------------------------------------------------------
BlankLine == [kind |-> "blank"]
MalformedLine == [kind |-> "malformed"]
RowLine(row) == [kind |-> "row", row |-> row]
InputFile(is_jsonl, lines) == [is_jsonl |-> is_jsonl, lines |-> lines]

\* _jsonl_reader: the rows of the lines that are neither blank nor malformed;
\* csv.DictReader: every row
ReaderRows(file) ==
    LET kept == SelectSeq(file.lines, LAMBDA line : line.kind = "row")
    IN  [i \in 1..Len(kept) |-> kept[i].row]
\* the row id ingest_csv_file gives the row of line p: the rows the reader
\* yields are numbered from 0
IngestRowId(file, p) ==
    RowIdx(file.lines[p].row,
           Cardinality({q \in 1..(p - 1) : file.lines[q].kind = "row"}))

\* row.get('idx', row.get('id', row.get('ID', i)))
IdxVal(row, i) ==
    IF row.idx.t # "absent" THEN row.idx
    ELSE IF row.id.t # "absent" THEN row.id
    ELSE IF row.ID.t # "absent" THEN row.ID
    ELSE IdInt(i)
\* int(idx_val)
IntOfIdx(idx_val) ==
    IF idx_val.t = "int" THEN [ok |-> TRUE, val |-> idx_val.n]
    ELSE IF idx_val.t = "str" THEN PyInt(idx_val.s)
    ELSE [ok |-> FALSE, val |-> 0]

FoundRow(row) == [kind |-> "row", row |-> row]
NoRow == [kind |-> "None"]
LookupRaised == [kind |-> "raised"]
\* the two loops of get_row_by_id from line i (numbered from 0) on
RECURSIVE GetRowLoop(_, _, _)
GetRowLoop(file, i, row_id) ==
    IF i >= Len(file.lines) THEN NoRow
    ELSE LET line == file.lines[i + 1]
             idx  == IntOfIdx(IdxVal(line.row, i))
         IN  IF line.kind # "row" THEN GetRowLoop(file, i + 1, row_id)
             ELSE IF file.is_jsonl
             THEN IF (IF idx.ok THEN idx.val ELSE i) = row_id
                  THEN FoundRow(line.row)
                  ELSE GetRowLoop(file, i + 1, row_id)
             ELSE IF ~idx.ok THEN LookupRaised
             ELSE IF idx.val = row_id THEN FoundRow(line.row)
             ELSE GetRowLoop(file, i + 1, row_id)
get_row_by_id(file, row_id) == GetRowLoop(file, 0, row_id)

\* the files: rows without an id column, with a numeric cell, with a cell
\* that is no number, and for JSONL with a JSON integer
CsvLookupKeys == {<<Absent, Absent, Absent>>, <<IdStr(<<"1">>), Absent, Absent>>,
                  <<IdStr(<<"x">>), Absent, Absent>>}
JsonlLookupKeys == CsvLookupKeys \cup {<<IdInt(0), Absent, Absent>>}
LookupNotes == {TxtPain, TxtVitals}
LookupRows(keys) ==
    {Row(k[1], k[2], k[3], note, <<>>, <<>>, NoSummary) : k \in keys, note \in LookupNotes}
LookupFiles ==
    {InputFile(FALSE, lines) :
        lines \in SeqsUpTo({RowLine(r) : r \in LookupRows(CsvLookupKeys)}, MaxRows)}
    \cup
    {InputFile(TRUE, lines) :
        lines \in SeqsUpTo({BlankLine, MalformedLine}
                           \cup {RowLine(r) : r \in LookupRows(JsonlLookupKeys)}, MaxRows)}
LookupIds == 0..MaxRows

\* ingest_csv_file(input_path, output_dir) of one input file
IngestInputFile ==
    /\ ~fn_call.called
    /\ \A f \in Range(CsvFiles) : ~processed[f].exists
    /\ \E file \in LookupFiles :
          /\ processed' = ingest_csv_file(ReaderRows(file), processed, Nothing)
          /\ fn_call' = [called |-> TRUE, fn |-> "ingest_csv_file", file |-> file]
    /\ fn_out' = <<>>
    /\ UNCHANGED <<clientVars, validateVars, indices, searchVars, run, compose, rb,
                   batch, case_run>>
\* get_row_by_id(input_path, row_id) on the file that was ingested
GetRowById ==
    /\ fn_call.called /\ fn_call.fn = "ingest_csv_file"
    /\ fn_out = <<>>
    /\ \E row_id \in LookupIds :
          fn_out' = <<[row_id |-> row_id, result |-> get_row_by_id(fn_call.file, row_id)]>>
    /\ UNCHANGED fn_call
    /\ UNCHANGED notFnVars
LookupNext == IngestInputFile \/ GetRowById

\* C29: for every row of an input CSV or JSONL file (rows without an idx
\* field or with a non-integer idx, files with blank or malformed lines
\* included), the row id under which ingest_csv_file emits the row's
\* evidence is the row id for which get_row_by_id returns that row.
C29_LookupFindsTheIngestedRow ==
    (fn_call.called /\ fn_call.fn = "ingest_csv_file") =>
        \A k \in 1..Len(fn_out) :
            \A p \in 1..Len(fn_call.file.lines) :
                (fn_call.file.lines[p].kind = "row"
                 /\ IngestRowId(fn_call.file, p) = fn_out[k].row_id)
                    => fn_out[k].result = FoundRow(fn_call.file.lines[p].row)


\* ------------------------------------------------------------------------
\* ingest/ingest_csv.py: the while loop of chunk_text, one pass per step,
\* for any chunk_size, overlap and min_chunk_size with
\* 0 <= overlap < chunk_size and min_chunk_size >= 0
\* ------------------------------------------------------------------------
MaxTextLen == 5
MaxChunkSize == 3
MaxMinChunk == 1
MaxPasses == 7
LoopTexts == SeqsUpTo({"a", "\n"}, MaxTextLen)
LoopParams ==
    {par \in [chunk_size : 1..MaxChunkSize, overlap : 0..(MaxChunkSize - 1),
              min_chunk_size : 0..MaxMinChunk] : par.overlap < par.chunk_size}

\* lines 64-68: the early return, or chunks = [] and start = 0
ChunkTextEnter ==
    /\ ~fn_call.called
    /\ \E text \in LoopTexts, par \in LoopParams :
          /\ fn_call' = [called |-> TRUE, fn |-> "chunk_text_loop", text |-> text, par |-> par]
          /\ fn_out' = IF text = <<>> \/ Len(text) < par.min_chunk_size
                       THEN [pc |-> "returned", start |-> 0, starts |-> <<>>,
                             chunks |-> IF text = <<>> THEN <<>>
                                        ELSE <<Chunk(text, 0, Len(text))>>]
                       ELSE [pc |-> "while", start |-> 0, starts |-> <<>>, chunks |-> <<>>]
    /\ UNCHANGED notFnVars
\* lines 70-89: one pass of `while start < len(text)`
ChunkTextPass ==
    /\ fn_call.called /\ fn_call.fn = "chunk_text_loop"
    /\ fn_out.pc = "while"
    /\ fn_out.start < Len(fn_call.text)
    /\ Len(fn_out.starts) < MaxPasses
    /\ LET end   == ChunkEnd(fn_call.text, fn_out.start, fn_call.par.chunk_size,
                             fn_call.par.min_chunk_size)
           chunk == Strip(PySlice(fn_call.text, fn_out.start, end))
       IN  fn_out' = [pc |-> "while",
                      start |-> NextStart(fn_call.text, end, fn_call.par.overlap),
                      starts |-> Append(fn_out.starts, fn_out.start),
                      chunks |-> IF Len(chunk) >= fn_call.par.min_chunk_size
                                 THEN Append(fn_out.chunks, Chunk(chunk, fn_out.start, end))
                                 ELSE fn_out.chunks]
    /\ UNCHANGED fn_call
    /\ UNCHANGED notFnVars
\* line 91: the loop condition fails, chunks is returned
ChunkTextReturn ==
    /\ fn_call.called /\ fn_call.fn = "chunk_text_loop"
    /\ fn_out.pc = "while"
    /\ ~(fn_out.start < Len(fn_call.text))
    /\ fn_out' = [fn_out EXCEPT !.pc = "returned"]
    /\ UNCHANGED fn_call
    /\ UNCHANGED notFnVars
ChunkLoopNext == ChunkTextEnter \/ ChunkTextPass \/ ChunkTextReturn

\* C30: chunk_text terminates for every text and every parameter choice
\* with 0 <= overlap < chunk_size and min_chunk_size >= 0: the chunk start
\* position strictly increases on every pass of the loop until it reaches
\* the end of the text.
C30_StartStrictlyIncreases ==
    (fn_call.called /\ fn_call.fn = "chunk_text_loop") =>
        /\ \A k \in 1..(Len(fn_out.starts) - 1) : fn_out.starts[k] < fn_out.starts[k + 1]
        /\ \A k \in 1..Len(fn_out.starts) : fn_out.starts[k] < fn_out.start

\* ------------------------------------------------------------------------
\* Specifications: one per component, the other components idle
\* ------------------------------------------------------------------------
\* no function called, no pipeline started
FnInit == fn_call = NoCall /\ fn_out = <<>>
IdleInit ==
    /\ run = [pc |-> "idle"] /\ compose = [pc |-> "idle"] /\ RebuildInit
    /\ BatchInit /\ CaseInit
RestInit == FnInit /\ IdleInit
InitAll == ClientInit /\ ValidateInit /\ IngestInit /\ SearchInit /\ RestInit

SpecClient == InitAll /\ [][ClientNext]_vars
SpecValidate == InitAll /\ [][ValidateNext]_vars
SpecIngest == InitAll /\ [][IngestNext]_vars
SpecIndex == InitAll /\ [][IndexNext]_vars
InitSearch == ClientInit /\ ValidateInit /\ SearchReady /\ RestInit
SpecSearch == InitSearch /\ [][SearchNext]_vars
SpecCleanup == InitAll /\ [][CleanupNext]_vars
SpecQuality == InitAll /\ [][QualityNext]_vars
SpecPipeline == InitAll /\ [][RunNext]_vars
SpecCompose == InitAll /\ [][ComposeNext]_vars
SpecChunk == InitAll /\ [][ChunkNext]_vars
SpecSummaryJson == InitAll /\ [][SummaryJsonNext]_vars
SpecConversation == InitAll /\ [][ConversationNext]_vars
SpecRebuild == InitAll /\ [][RebuildNext]_vars
SpecBatch == InitAll /\ [][BatchNext]_vars
SpecCase == InitAll /\ [][CaseNext]_vars
SpecSoap == InitAll /\ [][SoapNext]_vars
InitConfigured ==
    /\ settings \in ConfiguredSettings /\ ClientCallInit
    /\ ValidateInit /\ IngestInit /\ SearchInit /\ RestInit
SpecConfigured == InitConfigured /\ [][ClientNext]_vars
SpecSpans == InitAll /\ [][SpanNext]_vars
SpecLookup == InitAll /\ [][LookupNext]_vars
SpecChunkLoop == InitAll /\ [][ChunkLoopNext]_vars

====
